---------------------------- MODULE Spec2Model ----------------------------
(***************************************************************************)
(* A model of the upload Scheduler (class Scheduler) and of the job        *)
(* pipeline orchestrator (class JobQueue) of the Youtube-shorts service.   *)
(*                                                                         *)
(* Scheduler: the in-memory maps this.schedules and this.jobs, the         *)
(* persisted schedules.json, the node-schedule timers, and the pending     *)
(* executeUpload calls that await jobQueue.addUploadJob.                   *)
(*                                                                         *)
(* Time is a discrete clock.  A node-schedule timer fires when its date is *)
(* reached: the clock does not advance past a live timer that is due.      *)
(***************************************************************************)
EXTENDS Integers, Sequences, FiniteSets, Bags, TLC

(***************************************************************************)
(* Bounds of the model.                                                    *)
(***************************************************************************)
MaxSchedules == 2
MaxCalls == 3
MaxTime == 2
MaxRestarts == 1

Ids == 1..MaxSchedules
Payloads == {"clipA", "clipB"}
Zones == {"UTC", "Europe/Paris"}
ErrorMessages == {"Connection is closed."}
DaysOldInputs == {0, 1}
HoursPerDay == 24

VARIABLES
    now,        \* the current time (Date.now()), in hours
    schedules,  \* this.schedules: schedule id -> record
    file,       \* the parsed content of schedules.json
    jobs,       \* this.jobs: schedule id -> node-schedule handle
    stray,      \* live timers that this.jobs no longer references (a bag)
    inflight,   \* per schedule id, the executeUpload calls awaiting addUploadJob
    submits,    \* per schedule id, the payloads handed to addUploadJob so far
    idCount,    \* how many schedule ids uuidv4 has produced
    jobCount,   \* how many upload jobs the queue has accepted from the scheduler
    ret,        \* outcome of the latest call to the scheduler's interface
    calls,      \* how many scheduleUpload and reschedule calls went through
    restarts,   \* how many times the process was restarted
    diskOk,     \* whether writeFileSync currently succeeds
    stale,      \* ids loaded at the last start as 'scheduled' with a time not in the future
    cancelGuard, \* ids cancelled from 'scheduled' in this process, not rescheduled since
    peer        \* a second scheduler process on the same store: its maps and timers

schedVars == <<now, schedules, file, jobs, stray, inflight, submits, idCount,
               jobCount, ret, calls, restarts, diskOk, stale, cancelGuard>>

(***************************************************************************)
(* Time inputs.  A caller passes an ISO-8601 string and a timezone name.   *)
(* moment.tz(string, zone) reads a string without a UTC designator as wall *)
(* clock time in the zone, and a string with one as that instant.          *)
(***************************************************************************)
UtcOffset(tz) == IF tz = "Europe/Paris" THEN 1 ELSE 0

TimeInputs == [wall : 0..(MaxTime + 1), zoned : BOOLEAN]

UtcInputs == [wall : 0..MaxTime, zoned : {TRUE}]

MomentTz(t, tz) == IF t.zoned THEN t.wall ELSE t.wall - UtcOffset(tz)

(***************************************************************************)
(* node-schedule handles.  scheduleJob(date, fn) returns null for a date   *)
(* that has passed, else a one-shot job.                                   *)
(***************************************************************************)
NullHandle == [kind |-> "null", time |-> 0]
SpentHandle == [kind |-> "spent", time |-> 0]
LiveHandle(t) == [kind |-> "live", time |-> t]

ScheduleJob(date) == IF date >= now THEN LiveHandle(date) ELSE NullHandle

Truthy(id) == id \in DOMAIN jobs /\ jobs[id].kind # "null"

MappedLive(id) == id \in DOMAIN jobs /\ jobs[id].kind = "live"

StrayTimer(id, t) == [sid |-> id, time |-> t]

StrayCount(id) ==
    LET mine == {e \in BagToSet(stray) : e.sid = id}
        RECURSIVE Sum(_)
        Sum(S) == IF S = {} THEN 0
                  ELSE LET e == CHOOSE x \in S : TRUE
                       IN CopiesIn(e, stray) + Sum(S \ {e})
    IN Sum(mine)

LiveTimers(id) == (IF MappedLive(id) THEN 1 ELSE 0) + StrayCount(id)

DueTimers ==
    {id \in DOMAIN jobs : jobs[id].kind = "live" /\ jobs[id].time <= now}
    \cup {e.sid : e \in {x \in BagToSet(stray) : x.time <= now}}

Min(a, b) == IF a <= b THEN a ELSE b

MapSet(m, id, v) == [k \in DOMAIN m \cup {id} |-> IF k = id THEN v ELSE m[k]]

MapDelete(m, id) == [k \in DOMAIN m \ {id} |-> m[k]]

EmptyMap == [k \in {} |-> 0]

Ret(code, val) == [code |-> code, val |-> val]

(***************************************************************************)
(* saveSchedules: writeFileSync may throw; the error is logged and dropped.*)
(***************************************************************************)
SaveSchedules(m) == file' = IF diskOk THEN m ELSE file

SchedInit ==
    /\ now = 0
    /\ schedules = EmptyMap
    /\ file = EmptyMap
    /\ jobs = EmptyMap
    /\ stray = EmptyBag
    /\ inflight = [id \in Ids |-> 0]
    /\ submits = [id \in Ids |-> <<>>]
    /\ idCount = 0
    /\ jobCount = 0
    /\ ret = Ret("none", 0)
    /\ calls = 0
    /\ restarts = 0
    /\ diskOk = TRUE
    /\ stale = {}
    /\ cancelGuard = {}

NewSchedule(data, date, tz) ==
    [uploadData |-> data, scheduledTime |-> date, timezone |-> tz,
     status |-> "scheduled", createdAt |-> now, result |-> 0, error |-> ""]

(***************************************************************************)
(* The test scheduleUpload makes on the converted time.                    *)
(***************************************************************************)
NotInFutureStrict(scheduledDate) == scheduledDate < now

NotInFuture(scheduledDate) == scheduledDate <= now

(***************************************************************************)
(* scheduleUpload: throws before it touches anything when the time, read   *)
(* in the timezone, is not after now; else stores the record, saves and    *)
(* arms the timer.                                                         *)
(***************************************************************************)
ScheduleUpload(data, t, tz) ==
    LET scheduleId == idCount + 1
        scheduledDate == MomentTz(t, tz)
    IN  IF NotInFuture(scheduledDate)
        THEN /\ ret' = Ret("InvalidTime", 0)
             /\ UNCHANGED <<now, schedules, file, jobs, stray, inflight, submits,
                            idCount, jobCount, calls, restarts, diskOk, stale,
                            cancelGuard>>
        ELSE /\ calls < MaxCalls
             /\ idCount < MaxSchedules
             /\ calls' = calls + 1
             /\ idCount' = scheduleId
             /\ schedules' = MapSet(schedules, scheduleId,
                                    NewSchedule(data, scheduledDate, tz))
             /\ SaveSchedules(schedules')
             /\ jobs' = MapSet(jobs, scheduleId, ScheduleJob(scheduledDate))
             /\ ret' = Ret("ok", 0)
             /\ UNCHANGED <<now, stray, inflight, submits, jobCount, restarts,
                            diskOk, stale, cancelGuard>>

(***************************************************************************)
(* rescheduleJob: arms a timer for the record's scheduledTime and stores   *)
(* the handle that scheduleJob returned.                                   *)
(***************************************************************************)
RescheduleJob(m, id, date) == MapSet(m, id, ScheduleJob(date))

(***************************************************************************)
(* executeUpload up to its await: the record becomes 'executing', the      *)
(* store is saved and addUploadJob is called with the record's uploadData. *)
(* A record that is gone ends the call.                                    *)
(***************************************************************************)
ExecuteUploadBegin(id) ==
    IF id \notin DOMAIN schedules
    THEN UNCHANGED <<schedules, file, inflight, submits>>
    ELSE /\ schedules' = [schedules EXCEPT ![id].status = "executing"]
         /\ SaveSchedules(schedules')
         /\ submits' = [submits EXCEPT ![id] = Append(@, schedules[id].uploadData)]
         /\ inflight' = [inflight EXCEPT ![id] = @ + 1]

(***************************************************************************)
(* The timer that this.jobs references fires: the handle is spent and the  *)
(* callback enters executeUpload.                                          *)
(***************************************************************************)
FireMapped(id) ==
    /\ MappedLive(id)
    /\ jobs[id].time <= now
    /\ jobs' = [jobs EXCEPT ![id] = SpentHandle]
    /\ ExecuteUploadBegin(id)
    /\ UNCHANGED <<now, stray, idCount, jobCount, ret, calls, restarts, diskOk,
                   stale, cancelGuard>>

(***************************************************************************)
(* A live timer that this.jobs no longer references fires.                 *)
(***************************************************************************)
FireStray(id) ==
    \E e \in BagToSet(stray) :
        /\ e.sid = id
        /\ e.time <= now
        /\ stray' = stray (-) SetToBag({e})
        /\ ExecuteUploadBegin(id)
        /\ UNCHANGED <<now, jobs, idCount, jobCount, ret, calls, restarts,
                       diskOk, stale, cancelGuard>>

(***************************************************************************)
(* executeUpload after its await.  The function holds the record object it *)
(* read at entry; a record that cleanOldSchedules deleted meanwhile is no  *)
(* longer in this.schedules.  this.jobs.delete drops the map entry, not    *)
(* the timer behind it.                                                    *)
(***************************************************************************)
JobsDelete(id) ==
    /\ jobs' = MapDelete(jobs, id)
    /\ stray' = IF MappedLive(id)
                THEN stray (+) SetToBag({StrayTimer(id, jobs[id].time)})
                ELSE stray

ExecuteUploadResolve(id) ==
    /\ inflight[id] > 0
    /\ inflight' = [inflight EXCEPT ![id] = @ - 1]
    /\ jobCount' = jobCount + 1
    /\ schedules' = IF id \in DOMAIN schedules
                    THEN [schedules EXCEPT ![id].status = "completed",
                                           ![id].result = jobCount + 1]
                    ELSE schedules
    /\ SaveSchedules(schedules')
    /\ JobsDelete(id)
    /\ UNCHANGED <<now, submits, idCount, ret, calls, restarts, diskOk, stale,
                   cancelGuard>>

ExecuteUploadReject(id, msg) ==
    /\ inflight[id] > 0
    /\ inflight' = [inflight EXCEPT ![id] = @ - 1]
    /\ schedules' = IF id \in DOMAIN schedules
                    THEN [schedules EXCEPT ![id].status = "failed",
                                           ![id].error = msg]
                    ELSE schedules
    /\ SaveSchedules(schedules')
    /\ JobsDelete(id)
    /\ UNCHANGED <<now, submits, idCount, jobCount, ret, calls, restarts,
                   diskOk, stale, cancelGuard>>

(***************************************************************************)
(* cancelSchedule: cancels and forgets the handle in this.jobs when there  *)
(* is one, marks the record 'cancelled' whatever its status, and returns   *)
(* success for any id.                                                     *)
(***************************************************************************)
CancelSchedule(id) ==
    /\ jobs' = IF Truthy(id) THEN MapDelete(jobs, id) ELSE jobs
    /\ IF id \in DOMAIN schedules
       THEN /\ schedules' = [schedules EXCEPT ![id].status = "cancelled"]
            /\ SaveSchedules(schedules')
            /\ cancelGuard' = IF schedules[id].status = "scheduled"
                              THEN cancelGuard \cup {id}
                              ELSE cancelGuard \ {id}
       ELSE UNCHANGED <<schedules, file, cancelGuard>>
    /\ stale' = stale \ {id}
    /\ ret' = Ret("ok", 0)
    /\ UNCHANGED <<now, stray, inflight, submits, idCount, jobCount, calls,
                   restarts, diskOk>>

(***************************************************************************)
(* reschedule: cancels the handle in this.jobs, rewrites time, timezone    *)
(* and status of the record whatever its status, saves and arms a timer.   *)
(***************************************************************************)
Reschedule(id, t, tz) ==
    IF id \notin DOMAIN schedules
    THEN /\ ret' = Ret("NotFound", 0)
         /\ UNCHANGED <<now, schedules, file, jobs, stray, inflight, submits,
                        idCount, jobCount, calls, restarts, diskOk, stale,
                        cancelGuard>>
    ELSE LET scheduledDate == MomentTz(t, tz)
         IN  /\ calls < MaxCalls
             /\ calls' = calls + 1
             /\ schedules' = [schedules EXCEPT ![id].scheduledTime = scheduledDate,
                                               ![id].timezone = tz,
                                               ![id].status = "scheduled"]
             /\ SaveSchedules(schedules')
             /\ jobs' = RescheduleJob(jobs, id, scheduledDate)
             /\ stale' = stale \ {id}
             /\ cancelGuard' = cancelGuard \ {id}
             /\ ret' = Ret("ok", 0)
             /\ UNCHANGED <<now, stray, inflight, submits, idCount, jobCount,
                            restarts, diskOk>>

(***************************************************************************)
(* cleanOldSchedules(daysOld): deletes what is not 'scheduled' and was     *)
(* created before the cutoff; saves only when something was deleted.       *)
(***************************************************************************)
CleanOldSchedulesAnyStatus(daysOld) ==
    LET cutoffDate == now - daysOld * HoursPerDay
        old == {id \in DOMAIN schedules : schedules[id].createdAt < cutoffDate}
    IN  /\ schedules' = [id \in DOMAIN schedules \ old |-> schedules[id]]
        /\ IF Cardinality(old) > 0
           THEN SaveSchedules(schedules')
           ELSE UNCHANGED file
        /\ ret' = Ret("cleaned", Cardinality(old))
        /\ UNCHANGED <<now, jobs, stray, inflight, submits, idCount, jobCount,
                       calls, restarts, diskOk, stale, cancelGuard>>

CleanOldSchedules(daysOld) ==
    LET cutoffDate == now - daysOld * HoursPerDay
        old == {id \in DOMAIN schedules :
                    /\ schedules[id].status # "scheduled"
                    /\ schedules[id].createdAt < cutoffDate}
    IN  /\ schedules' = [id \in DOMAIN schedules \ old |-> schedules[id]]
        /\ IF Cardinality(old) > 0
           THEN SaveSchedules(schedules')
           ELSE UNCHANGED file
        /\ ret' = Ret("cleaned", Cardinality(old))
        /\ UNCHANGED <<now, jobs, stray, inflight, submits, idCount, jobCount,
                       calls, restarts, diskOk, stale, cancelGuard>>

(***************************************************************************)
(* loadSchedules on a fresh Scheduler: the map is read from the file and   *)
(* every 'scheduled' record whose time is still ahead gets a timer.        *)
(***************************************************************************)
LoadSchedulesArmedNow(data, at) ==
    LET armed == {id \in DOMAIN data : /\ data[id].status = "scheduled"
                                       /\ data[id].scheduledTime > at}
    IN  [id \in armed |-> LiveHandle(at)]

LoadSchedulesAnyTime(data, at) ==
    LET armed == {id \in DOMAIN data : data[id].status = "scheduled"}
    IN  [id \in armed |-> LiveHandle(data[id].scheduledTime)]

LoadSchedulesResumesExecuting(data, at) ==
    LET armed == {id \in DOMAIN data :
                     \/ data[id].status = "executing"
                     \/ /\ data[id].status = "scheduled"
                        /\ data[id].scheduledTime > at}
    IN  [id \in armed |-> LiveHandle(data[id].scheduledTime)]

LoadSchedules(data, at) ==
    LET armed == {id \in DOMAIN data : /\ data[id].status = "scheduled"
                                       /\ data[id].scheduledTime > at}
    IN  [id \in armed |-> LiveHandle(data[id].scheduledTime)]

(***************************************************************************)
(* The process stops, stays down for some time and starts again: timers    *)
(* and pending calls are gone, the constructor runs loadSchedules.         *)
(***************************************************************************)
Restart(down) ==
    /\ restarts < MaxRestarts
    /\ restarts' = restarts + 1
    /\ now + down <= MaxTime
    /\ now' = now + down
    /\ schedules' = file
    /\ jobs' = LoadSchedules(file, now')
    /\ stray' = EmptyBag
    /\ inflight' = [id \in Ids |-> 0]
    /\ stale' = {id \in DOMAIN file : /\ file[id].status = "scheduled"
                                      /\ file[id].scheduledTime <= now'}
    /\ cancelGuard' = {}
    /\ ret' = Ret("none", 0)
    /\ UNCHANGED <<file, submits, idCount, jobCount, calls, diskOk>>

Tick ==
    /\ now < MaxTime
    /\ DueTimers = {}
    /\ now' = now + 1
    /\ UNCHANGED <<schedules, file, jobs, stray, inflight, submits, idCount,
                   jobCount, ret, calls, restarts, diskOk, stale, cancelGuard>>

(***************************************************************************)
(* scheduleBulk.  The call is synchronous: it walks the uploads in order,  *)
(* computes the time of each from the pattern and calls scheduleUpload,    *)
(* which stores, saves and arms before the next upload is looked at.  The  *)
(* walk is a fold over a record of what the call has written so far.       *)
(***************************************************************************)
PatternTypes == {"interval", "daily", "custom"}

StartInputs == [wall : 0..MaxTime, zoned : {FALSE}]

IntervalInputs == {0, 1, 2}

RECURSIVE SeqsUpTo(_, _)
SeqsUpTo(S, n) ==
    IF n = 0 THEN {<<>>}
    ELSE LET shorter == SeqsUpTo(S, n - 1)
         IN  shorter \cup {Append(q, x) : q \in shorter, x \in S}

UploadLists == SeqsUpTo(Payloads, MaxSchedules)

TimesLists == SeqsUpTo([wall : {0, MaxTime}, zoned : {TRUE}], MaxSchedules)

Patterns ==
    [type : {"interval"}, startTime : StartInputs, timezone : Zones,
     interval : IntervalInputs, times : {<<>>}]
    \cup [type : {"daily"}, startTime : StartInputs, timezone : Zones,
          interval : {0}, times : {<<>>}]
    \cup [type : {"custom"}, startTime : {[wall |-> 1, zoned |-> FALSE]},
          timezone : Zones, interval : {0}, times : TimesLists]
    \cup [type : {"weekly"}, startTime : {[wall |-> 1, zoned |-> FALSE]},
          timezone : {"UTC"}, interval : {0}, times : {<<>>}]

ToISOString(instant) == [wall |-> instant, zoned |-> TRUE]

BulkStart ==
    [schedules |-> schedules, file |-> file, jobs |-> jobs, idCount |-> idCount,
     results |-> <<>>, code |-> "bulk"]

(***************************************************************************)
(* scheduleUpload as scheduleBulk calls it, on what the call wrote so far. *)
(***************************************************************************)
ScheduleUploadOn(st, data, t, tz) ==
    LET scheduleId == st.idCount + 1
        scheduledDate == MomentTz(t, tz)
        stored == MapSet(st.schedules, scheduleId, NewSchedule(data, scheduledDate, tz))
    IN  IF NotInFuture(scheduledDate)
        THEN [st EXCEPT !.code = "InvalidTime"]
        ELSE [st EXCEPT !.schedules = stored,
                        !.file = IF diskOk THEN stored ELSE @,
                        !.jobs = MapSet(@, scheduleId, ScheduleJob(scheduledDate)),
                        !.idCount = scheduleId,
                        !.results = Append(@, [scheduleId |-> scheduleId,
                                               scheduledTime |-> scheduledDate,
                                               status |-> "scheduled"])]

(***************************************************************************)
(* The time of the upload at a (0-based) index, for the three known types. *)
(***************************************************************************)
BulkTimeOneBased(pattern, index) ==
    LET startDate == MomentTz(pattern.startTime, pattern.timezone)
    IN  IF pattern.type = "interval"
        THEN startDate + (index + 1) * pattern.interval
        ELSE IF pattern.type = "daily"
        THEN startDate + (index + 1) * HoursPerDay
        ELSE MomentTz(pattern.times[index + 1], pattern.timezone)

BulkTime(pattern, index) ==
    LET startDate == MomentTz(pattern.startTime, pattern.timezone)
    IN  IF pattern.type = "interval"
        THEN startDate + index * pattern.interval
        ELSE IF pattern.type = "daily"
        THEN startDate + index * HoursPerDay
        ELSE MomentTz(pattern.times[index + 1], pattern.timezone)

RECURSIVE BulkFrom(_, _, _, _)
BulkFrom(st, uploads, pattern, index) ==
    IF index >= Len(uploads)
    THEN st
    ELSE IF pattern.type \notin PatternTypes
    THEN [st EXCEPT !.code = "InvalidPattern"]
    ELSE IF pattern.type = "custom" /\ index >= Len(pattern.times)
    THEN [st EXCEPT !.code = "InsufficientTimes"]
    ELSE LET after == ScheduleUploadOn(st, uploads[index + 1],
                          ToISOString(BulkTime(pattern, index)), pattern.timezone)
         IN  IF after.code # "bulk"
             THEN after
             ELSE BulkFrom(after, uploads, pattern, index + 1)

BulkAtomic(uploads, pattern) ==
    IF pattern.type = "custom" /\ Len(pattern.times) < Len(uploads)
    THEN [BulkStart EXCEPT !.code = "InsufficientTimes"]
    ELSE BulkFrom(BulkStart, uploads, pattern, 0)

BulkRollsBack(uploads, pattern) ==
    LET out == BulkFrom(BulkStart, uploads, pattern, 0)
    IN  IF out.code # "bulk" THEN [BulkStart EXCEPT !.code = out.code] ELSE out

Bulk(uploads, pattern) == BulkFrom(BulkStart, uploads, pattern, 0)

ScheduleBulk(uploads, pattern) ==
    LET out == Bulk(uploads, pattern)
    IN  /\ idCount + Len(uploads) <= MaxSchedules
        /\ calls + Len(uploads) <= MaxCalls
        /\ schedules' = out.schedules
        /\ file' = out.file
        /\ jobs' = out.jobs
        /\ idCount' = out.idCount
        /\ calls' = calls + (out.idCount - idCount)
        /\ ret' = Ret(out.code, IF out.code = "bulk" THEN out.results ELSE 0)
        /\ UNCHANGED <<now, stray, inflight, submits, jobCount, restarts, diskOk,
                       stale, cancelGuard>>

-----------------------------------------------------------------------------
(***************************************************************************)
(* getUpcoming(limit): the 'scheduled' records whose time is after now,    *)
(* sorted by time, cut by slice(0, limit).  Array.prototype.sort is stable *)
(* and the Map is walked in insertion order, so records of equal time stay *)
(* in the order of their ids.  slice counts a negative end from the end of *)
(* the array.                                                              *)
(***************************************************************************)
LimitInputs == {-1, 0, 1, MaxSchedules}

RECURSIVE SortByTime(_, _)
SortByTime(m, S) ==
    IF S = {} THEN <<>>
    ELSE LET first == CHOOSE id \in S :
                          \A o \in S :
                              \/ m[id].scheduledTime < m[o].scheduledTime
                              \/ /\ m[id].scheduledTime = m[o].scheduledTime
                                 /\ id <= o
         IN  <<first>> \o SortByTime(m, S \ {first})

Slice(list, end) ==
    LET stop == IF end < 0 THEN Len(list) + end ELSE end
    IN  SubSeq(list, 1, IF stop < 0 THEN 0 ELSE Min(stop, Len(list)))

Upcoming(limit) ==
    Slice(SortByTime(schedules,
                     {id \in DOMAIN schedules :
                          /\ schedules[id].status = "scheduled"
                          /\ schedules[id].scheduledTime > now}),
          limit)

GetUpcoming(limit) ==
    /\ ret' = Ret("upcoming", Upcoming(limit))
    /\ UNCHANGED <<now, schedules, file, jobs, stray, inflight, submits, idCount,
                   jobCount, calls, restarts, diskOk, stale, cancelGuard>>

(***************************************************************************)
(* JobQueue: the Bull queue 'video-processing' with its two named          *)
(* processors.  A job record holds what Bull keeps (state, attemptsMade,   *)
(* progress, failedReason, returnvalue, the time a delayed job is due) and *)
(* where its handler stands.  Progress is kept in units of 1/ProgressUnit  *)
(* percent, so that every value the handlers compute is an integer.        *)
(***************************************************************************)
MaxJobs == 1
MaxClips == 2
MaxQueueTicks == 4
MaxRetryCalls == 1
MaxBurst == 6

Attempts == 3
BackoffDelay == 5000
MaxConcurrentJobs == 2
UploadConcurrency == 3
DefaultClipDuration == 15

VARIABLES
    qnow,       \* Date.now() of the queue, in milliseconds
    qjobs,      \* the jobs of the queue, by job id (1, 2, ...)
    retryCalls, \* how many retryJob calls went through
    qret        \* outcome of the latest getJobStatus, cancelJob or retryJob call

queueVars == <<qnow, qjobs, retryCalls, qret>>

vars == <<schedVars, queueVars, peer>>

RECURSIVE Factorial(_)
Factorial(n) == IF n <= 1 THEN 1 ELSE n * Factorial(n - 1)

ProgressUnit == 5 * Factorial(MaxClips)

Percent(x) == x * ProgressUnit

Urls == {"short", "long"}
VideoDuration(url) == IF url = "long" THEN DefaultClipDuration * MaxClips ELSE 10
MaxClipsInputs == {0, MaxClips}
StartTimeInputs == {0, VideoDuration("short")}
ResizePercents == {-10, 0, 50, 120}
UploadPercents == {50, 100}
ScheduledTimeInputs == {0, BackoffDelay}
StageErrors == {"Failed to download video", "Failed to process video to Shorts",
                "Failed to upload video"}

JobIds == 1..Len(qjobs)

(***************************************************************************)
(* The options both add calls pass to queue.add.                           *)
(***************************************************************************)
JobOptionsFourAttempts == [attempts |-> Attempts + 1, backoff |-> BackoffDelay]

JobOptions == [attempts |-> Attempts, backoff |-> BackoffDelay]

(***************************************************************************)
(* What a job has before its handler wrote anything: no progress event was *)
(* emitted for it, the results object of processVideo is empty, and Bull   *)
(* holds no return value.  sourceFiles counts the videos that the job's    *)
(* attempts downloaded into the temp directory and that are still there.   *)
(***************************************************************************)
NoEvent == [stage |-> "none", percent |-> -1]

NoInfo == [id |-> "none", title |-> [kind |-> "null", len |-> 0, hash |-> FALSE],
           duration |-> 0]

NoResults == [videoInfo |-> NoInfo, clips |-> <<>>, aiContent |-> <<>>]

NoValue == [kind |-> "none", results |-> NoResults, id |-> "none", url |-> <<>>]

NewJob(name, url, maxClips, delay) ==
    [name |-> name, opts |-> JobOptions, url |-> url, maxClips |-> maxClips,
     state |-> IF delay > 0 THEN "delayed" ELSE "waiting",
     runAt |-> IF delay > 0 THEN qnow + delay ELSE 0,
     attemptsMade |-> 0, progress |-> 0, failedReason |-> "",
     returnvalue |-> NoValue, pc |-> "idle", numClips |-> 0, clips |-> 0,
     idx |-> 0, execs |-> 0, manual |-> 0, scheduledTime |-> 0,
     io |-> FALSE, event |-> NoEvent, results |-> NoResults, aiBatch |-> <<>>,
     uploaderCalls |-> 0, generatorCalls |-> 0, finishedOn |-> 0,
     sourceFiles |-> 0, startTime |-> 0]

QueueInit ==
    /\ qnow = 0
    /\ qjobs = <<>>
    /\ retryCalls = 0
    /\ qret = Ret("none", 0)

AddProcessingJob(url, startTime, maxClips, io) ==
    /\ qjobs' = Append(qjobs, [NewJob("process-video", url, maxClips, 0)
                                  EXCEPT !.io = io, !.startTime = startTime])
    /\ UNCHANGED <<qnow, retryCalls, qret>>

AddUploadJobNoDelay(scheduledTime, io) ==
    /\ qjobs' = Append(qjobs, [NewJob("upload-video", "none", 0, 0)
                                  EXCEPT !.scheduledTime = scheduledTime,
                                         !.io = io])
    /\ UNCHANGED <<qnow, retryCalls, qret>>

AddUploadJob(scheduledTime, io) ==
    /\ LET delay == IF scheduledTime # 0 THEN scheduledTime - qnow ELSE 0
       IN  qjobs' = Append(qjobs, [NewJob("upload-video", "none", 0, delay)
                                     EXCEPT !.scheduledTime = scheduledTime,
                                            !.io = io])
    /\ UNCHANGED <<qnow, retryCalls, qret>>

(***************************************************************************)
(* Bull hands a waiting job to a handler while a worker slot is free; the  *)
(* slots of the named processors of one queue add up.                      *)
(***************************************************************************)
ActiveCount == Cardinality({j \in JobIds : qjobs[j].state = "active"})

(***************************************************************************)
(* emitProgress: with a listener the event goes out, a synchronous call    *)
(* that returns at once; without one nothing happens.  The job record      *)
(* keeps the latest event emitted for it.                                  *)
(***************************************************************************)
EmitProgressNeedsListener(job, stage, percent) ==
    IF job.io THEN [job EXCEPT !.event = [stage |-> stage, percent |-> percent]]
    ELSE [job EXCEPT !.pc = "blocked"]

EmitProgress(job, stage, percent) ==
    IF job.io THEN [job EXCEPT !.event = [stage |-> stage, percent |-> percent]]
    ELSE job

(***************************************************************************)
(* The handler up to its first await.  processVideo writes progress 10,    *)
(* emits and calls the downloader; uploadVideo emits its first event and   *)
(* calls the uploader without writing progress.                            *)
(***************************************************************************)
HandlerEntry(job) ==
    IF job.name = "process-video"
    THEN EmitProgress([job EXCEPT !.progress = Percent(10), !.pc = "downloading",
                                  !.numClips = 0, !.clips = 0, !.idx = 0,
                                  !.results = NoResults, !.aiBatch = <<>>,
                                  !.generatorCalls = 0],
                      "downloading", Percent(10))
    ELSE EmitProgress([job EXCEPT !.pc = "uploading",
                                  !.uploaderCalls = @ + 1],
                      "uploading", Percent(0))

StartJob(j) ==
    /\ qjobs[j].state = "waiting"
    /\ ActiveCount < MaxConcurrentJobs + UploadConcurrency
    /\ qjobs' = [qjobs EXCEPT ![j] =
                    HandlerEntry([@ EXCEPT !.state = "active", !.execs = @ + 1])]
    /\ UNCHANGED <<qnow, retryCalls, qret>>

PromoteDelayed(j) ==
    /\ qjobs[j].state = "delayed"
    /\ qnow >= qjobs[j].runAt
    /\ qjobs' = [qjobs EXCEPT ![j].state = "waiting", ![j].runAt = 0]
    /\ UNCHANGED <<qnow, retryCalls, qret>>

(***************************************************************************)
(* Bull's handling of a handler that threw: the attempt is counted and the *)
(* reason stored; below the attempts option the job is delayed by the      *)
(* exponential backoff, else it is failed.                                 *)
(***************************************************************************)
RECURSIVE Pow2(_)
Pow2(n) == IF n <= 0 THEN 1 ELSE 2 * Pow2(n - 1)

BackoffFixed(opts, attemptsMade) == opts.backoff

Backoff(opts, attemptsMade) == (Pow2(attemptsMade) - 1) * opts.backoff

MoveToFailed(job, msg) ==
    LET made == job.attemptsMade + 1
        counted == [job EXCEPT !.attemptsMade = made, !.failedReason = msg,
                               !.pc = "idle", !.numClips = 0, !.clips = 0,
                               !.idx = 0, !.results = NoResults,
                               !.aiBatch = <<>>, !.generatorCalls = 0]
    IN  IF made < job.opts.attempts
        THEN [counted EXCEPT !.state = "delayed",
                             !.runAt = qnow + Backoff(job.opts, made)]
        ELSE [counted EXCEPT !.state = "failed", !.finishedOn = qnow]

MoveToCompleted(job, value) ==
    [job EXCEPT !.state = "completed", !.returnvalue = value, !.pc = "idle",
                !.numClips = 0, !.idx = 0, !.results = NoResults,
                !.aiBatch = <<>>, !.finishedOn = qnow]

(***************************************************************************)
(* The catch block of both handlers: the error event is emitted and the    *)
(* error rethrown to Bull.                                                 *)
(***************************************************************************)
HandlerThrows(job, msg) == MoveToFailed(EmitProgress(job, "error", -1), msg)

(***************************************************************************)
(* splitIntoClips: how many clips it plans, and how long clip i is.        *)
(***************************************************************************)
PlannedClips(duration, startTime, clipDuration, maxClips) ==
    IF maxClips # 0 THEN maxClips ELSE (duration - startTime) \div clipDuration

ActualDuration(duration, startTime, clipDuration, i) ==
    LET clipStartTime == startTime + i * clipDuration
        clipEndTime == Min(clipStartTime + clipDuration, duration)
    IN  clipEndTime - clipStartTime

(***************************************************************************)
(* The clips an attempt has produced.  uuidv4 gives every clip an id of    *)
(* its own; index is the clip's position in the split loop, startTime and  *)
(* duration are what the loop computed for it.                             *)
(***************************************************************************)
ClipId(execs, i) == execs * (MaxClips + 1) + i

ClipList(job, n) ==
    [k \in 1..n |->
        [id |-> ClipId(job.execs, k - 1), index |-> k - 1,
         startTime |-> job.startTime + (k - 1) * DefaultClipDuration,
         duration |-> ActualDuration(VideoDuration(job.url), job.startTime,
                                     DefaultClipDuration, k - 1)]]

(***************************************************************************)
(* getVideoInfo: the metadata the downloader returns with the file.        *)
(***************************************************************************)
VideoInfo(url) ==
    [id |-> url, title |-> [kind |-> "string", len |-> 12, hash |-> FALSE],
     duration |-> VideoDuration(url)]

(***************************************************************************)
(* The two onProgress mappings of processVideo's second stage: the split   *)
(* loop reports ((i + 1) / numClips) * 100, ffmpeg reports its own percent *)
(* per resized clip; both are written as 30 + percent * 0.4.               *)
(***************************************************************************)
ProcessingPercent(percentUnits) == Percent(30) + (percentUnits * 2) \div 5

SplitPercent(i, numClips) == ((i + 1) * Percent(100)) \div numClips

(***************************************************************************)
(* The download returned, its file is in the temp directory (a download    *)
(* that fails removes its own file): the metadata is kept, progress 30 is  *)
(* written and emitted, and processToShorts is called, which plans the     *)
(* clips from the video's duration.                                        *)
(***************************************************************************)
DownloadReturnsOutOfOrder(job) ==
    EmitProgress([job EXCEPT !.progress = Percent(30), !.pc = "splitting",
                             !.results.videoInfo = VideoInfo(job.url),
                             !.sourceFiles = @ + 1,
                             !.numClips = PlannedClips(VideoDuration(job.url),
                                              job.startTime,
                                              DefaultClipDuration, job.maxClips),
                             !.clips = 0, !.idx = 0],
                 "generating-ai", Percent(30))

DownloadReturns(job) ==
    EmitProgress([job EXCEPT !.progress = Percent(30), !.pc = "splitting",
                             !.results.videoInfo = VideoInfo(job.url),
                             !.sourceFiles = @ + 1,
                             !.numClips = PlannedClips(VideoDuration(job.url),
                                              job.startTime,
                                              DefaultClipDuration, job.maxClips),
                             !.clips = 0, !.idx = 0],
                 "processing", Percent(30))

DownloadDone(j) ==
    LET job == qjobs[j]
    IN  /\ job.state = "active"
        /\ job.pc = "downloading"
        /\ qjobs' = [qjobs EXCEPT ![j] = DownloadReturns(job)]
        /\ UNCHANGED <<qnow, retryCalls, qret>>

(***************************************************************************)
(* One turn of the split loop: it throws when no clip is planned, ends at  *)
(* the planned number or at a clip shorter than one second, else extracts  *)
(* a clip and reports, which writes and emits the mapped percent.          *)
(***************************************************************************)
SplitTurn(job) ==
    LET actual == ActualDuration(VideoDuration(job.url), job.startTime,
                                 DefaultClipDuration, job.idx)
        percent == ProcessingPercent(SplitPercent(job.idx, job.numClips))
    IN  IF job.numClips <= 0
        THEN HandlerThrows(job, "Failed to process video to Shorts")
        ELSE IF job.idx >= job.numClips \/ actual < 1
        THEN [job EXCEPT !.pc = "resizing", !.idx = 0]
        ELSE EmitProgress([job EXCEPT !.clips = @ + 1, !.idx = @ + 1,
                                      !.progress = percent],
                          "processing", percent)

SplitStep(j) ==
    LET job == qjobs[j]
    IN  /\ job.state = "active"
        /\ job.pc = "splitting"
        /\ qjobs' = [qjobs EXCEPT ![j] = SplitTurn(job)]
        /\ UNCHANGED <<qnow, retryCalls, qret>>

(***************************************************************************)
(* ffmpeg reports a percent while a clip is resized; resizeToShorts drops  *)
(* a report whose percent is falsy.                                        *)
(***************************************************************************)
ResizeReports(job, p) ==
    IF p # 0
    THEN EmitProgress([job EXCEPT !.progress = ProcessingPercent(Percent(p))],
                      "processing", ProcessingPercent(Percent(p)))
    ELSE job

ResizeProgress(j, p) ==
    LET job == qjobs[j]
    IN  /\ job.state = "active"
        /\ job.pc = "resizing"
        /\ job.idx < job.clips
        /\ qjobs' = [qjobs EXCEPT ![j] = ResizeReports(job, p)]
        /\ UNCHANGED <<qnow, retryCalls, qret>>

(***************************************************************************)
(* A clip is resized; after the last one processToShorts returns its clip  *)
(* list, progress 70 is written and emitted, and generateBatch is called.  *)
(***************************************************************************)
ResizeReturns(job) ==
    IF job.idx < job.clips
    THEN [job EXCEPT !.idx = @ + 1]
    ELSE EmitProgress([job EXCEPT !.progress = Percent(70),
                                  !.pc = "generating-ai",
                                  !.results.clips = ClipList(job, job.clips),
                                  !.aiBatch = <<>>],
                      "generating-ai", Percent(70))

ResizeDone(j) ==
    LET job == qjobs[j]
    IN  /\ job.state = "active"
        /\ job.pc = "resizing"
        /\ qjobs' = [qjobs EXCEPT ![j] = ResizeReturns(job)]
        /\ UNCHANGED <<qnow, retryCalls, qret>>

(***************************************************************************)
(* AIService.  A text is kept as what the service looks at: per string its *)
(* length and whether it holds a '#'; a response as its lines, each either *)
(* a TITLE: line, a DESCRIPTION: line or something else.                   *)
(***************************************************************************)
TitleLimit == 100

NullText == [kind |-> "null", len |-> 0, hash |-> FALSE]

Str(len, hash) == [kind |-> "string", len |-> len, hash |-> hash]

TextLine(tag, len, hash) == [tag |-> tag, len |-> len, hash |-> hash]

ResponseTexts ==
    {<<TextLine("TITLE", 20, FALSE), TextLine("DESCRIPTION", 50, TRUE)>>,
     <<TextLine("TITLE", TitleLimit + 20, FALSE),
       TextLine("DESCRIPTION", 50, FALSE)>>,
     <<TextLine("TITLE", 20, FALSE)>>,
     <<TextLine("OTHER", 30, FALSE)>>}

AiOutcomes ==
    {[raises |-> TRUE, text |-> <<>>]}
    \cup {[raises |-> FALSE, text |-> t] : t \in ResponseTexts}

(***************************************************************************)
(* text.match(...): the first line of the kind, trimmed, or null.          *)
(***************************************************************************)
Match(text, tag) ==
    LET found == {k \in 1..Len(text) : text[k].tag = tag}
        first == CHOOSE k \in found : \A m \in found : k <= m
    IN  IF found = {} THEN NullText ELSE Str(text[first].len, text[first].hash)

NonEmpty(s) == s.kind = "string" /\ s.len > 0

ValidateTitle(title) ==
    IF title.len > TitleLimit THEN Str(TitleLimit, title.hash) ELSE title

ValidateDescription(description) ==
    IF ~description.hash THEN Str(description.len + 31, TRUE) ELSE description

ParseResponse(text) ==
    LET title == Match(text, "TITLE")
        description == Match(text, "DESCRIPTION")
    IN  [title |-> IF NonEmpty(title) THEN ValidateTitle(title) ELSE NullText,
         description |-> IF NonEmpty(description)
                         THEN ValidateDescription(description) ELSE NullText]

GenerateFallbackContent(videoMetadata, clipInfo) ==
    [title |-> Str(videoMetadata.title.len + 17, TRUE),
     description |-> Str(videoMetadata.title.len + 75, TRUE)]

(***************************************************************************)
(* generateTitleAndDescription: the fallback when no model is configured   *)
(* or the call raises, else whatever parseResponse makes of the text.      *)
(***************************************************************************)
GenerateTitleAndDescription(model, outcome, videoMetadata, clipInfo) ==
    IF ~model
    THEN GenerateFallbackContent(videoMetadata, clipInfo)
    ELSE IF outcome.raises
    THEN GenerateFallbackContent(videoMetadata, clipInfo)
    ELSE ParseResponse(outcome.text)

(***************************************************************************)
(* One turn of generateBatch's loop: the next clip's content is generated  *)
(* and pushed with the clip's id.                                          *)
(***************************************************************************)
BatchTurnByIndex(job, model, outcome) ==
    LET clip == job.results.clips[Len(job.aiBatch) + 1]
        content == GenerateTitleAndDescription(model, outcome,
                                               job.results.videoInfo, clip)
    IN  [job EXCEPT !.generatorCalls = @ + 1,
                    !.aiBatch = Append(@, [clipId |-> clip.index,
                                           title |-> content.title,
                                           description |-> content.description])]

BatchTurn(job, model, outcome) ==
    LET clip == job.results.clips[Len(job.aiBatch) + 1]
        content == GenerateTitleAndDescription(model, outcome,
                                               job.results.videoInfo, clip)
    IN  [job EXCEPT !.generatorCalls = @ + 1,
                    !.aiBatch = Append(@, [clipId |-> clip.id,
                                           title |-> content.title,
                                           description |-> content.description])]

GenerateClip(j, model, outcome) ==
    LET job == qjobs[j]
    IN  /\ job.state = "active"
        /\ job.pc = "generating-ai"
        /\ Len(job.aiBatch) < Len(job.results.clips)
        /\ qjobs' = [qjobs EXCEPT ![j] = BatchTurn(job, model, outcome)]
        /\ UNCHANGED <<qnow, retryCalls, qret>>

(***************************************************************************)
(* generateBatch returned: the download is cleaned up, progress 100 is     *)
(* written and emitted, and the handler returns its results.               *)
(***************************************************************************)
GenerateReturns(job) ==
    LET results == [job.results EXCEPT !.aiContent = job.aiBatch]
        done == EmitProgress([job EXCEPT !.progress = Percent(100),
                                         !.sourceFiles = @ - 1],
                             "completed", Percent(100))
    IN  MoveToCompleted(done, [NoValue EXCEPT !.kind = "results",
                                              !.results = results])

GenerateDone(j) ==
    LET job == qjobs[j]
    IN  /\ job.state = "active"
        /\ job.pc = "generating-ai"
        /\ Len(job.aiBatch) = Len(job.results.clips)
        /\ qjobs' = [qjobs EXCEPT ![j] = GenerateReturns(job)]
        /\ UNCHANGED <<qnow, retryCalls, qret>>

(***************************************************************************)
(* uploadVideo.  The uploader reports a percent, which is written as the   *)
(* job's progress and emitted; when it returns, the completed event is     *)
(* emitted and the handler returns what the uploader returned.             *)
(***************************************************************************)
VideoIds == {"vidA", "vidB"}

WatchUrl(videoId) == <<"https://www.youtube.com/watch?v=", videoId>>

UploadReports(job, p) ==
    EmitProgress([job EXCEPT !.progress = Percent(p)], "uploading", Percent(p))

UploadProgress(j, p) ==
    LET job == qjobs[j]
    IN  /\ job.state = "active"
        /\ job.pc = "uploading"
        /\ qjobs' = [qjobs EXCEPT ![j] = UploadReports(job, p)]
        /\ UNCHANGED <<qnow, retryCalls, qret>>

UploadReturns(job, videoId) ==
    MoveToCompleted(EmitProgress(job, "completed", Percent(100)),
                    [NoValue EXCEPT !.kind = "uploaded", !.id = videoId,
                                    !.url = WatchUrl(videoId)])

UploadDone(j, videoId) ==
    LET job == qjobs[j]
    IN  /\ job.state = "active"
        /\ job.pc = "uploading"
        /\ qjobs' = [qjobs EXCEPT ![j] = UploadReturns(job, videoId)]
        /\ UNCHANGED <<qnow, retryCalls, qret>>

(***************************************************************************)
(* An adapter call fails: the handler emits the error event and rethrows.  *)
(***************************************************************************)
StageOf(msg) ==
    IF msg = "Failed to download video" THEN {"downloading"}
    ELSE IF msg = "Failed to process video to Shorts" THEN {"splitting", "resizing"}
    ELSE {"uploading"}

StageFails(j, msg) ==
    LET job == qjobs[j]
    IN  /\ job.state = "active"
        /\ job.pc \in StageOf(msg)
        /\ job.pc = "resizing" => job.idx < job.clips
        /\ qjobs' = [qjobs EXCEPT ![j] = HandlerThrows(job, msg)]
        /\ UNCHANGED <<qnow, retryCalls, qret>>

(***************************************************************************)
(* queue.getJob(jobId): a job the queue never had, or one that was         *)
(* removed, is not found.                                                  *)
(***************************************************************************)
JobIdInputs == 1..(MaxJobs + 1)

HasJob(jobId) == jobId \in JobIds /\ qjobs[jobId].state # "removed"

(***************************************************************************)
(* retryJob: job.retry() puts a failed job back to waiting; Bull keeps its *)
(* attemptsMade.                                                           *)
(***************************************************************************)
RetryJob(jobId) ==
    IF ~HasJob(jobId)
    THEN /\ qret' = Ret("NotFound", 0)
         /\ UNCHANGED <<qnow, qjobs, retryCalls>>
    ELSE IF qjobs[jobId].state # "failed"
    THEN /\ qret' = Ret("RetryRefused", 0)
         /\ UNCHANGED <<qnow, qjobs, retryCalls>>
    ELSE /\ retryCalls < MaxRetryCalls
         /\ retryCalls' = retryCalls + 1
         /\ qjobs' = [qjobs EXCEPT ![jobId].state = "waiting",
                                   ![jobId].failedReason = "",
                                   ![jobId].finishedOn = 0,
                                   ![jobId].manual = @ + 1]
         /\ qret' = Ret("ok", 0)
         /\ UNCHANGED qnow

(***************************************************************************)
(* getJobStatus: throws for an id the queue has no job for, else returns   *)
(* what the job holds.                                                     *)
(***************************************************************************)
GetJobStatus(jobId) ==
    /\ qret' = IF ~HasJob(jobId)
               THEN Ret("NotFound", 0)
               ELSE Ret("status", [id |-> jobId,
                                   state |-> qjobs[jobId].state,
                                   progress |-> qjobs[jobId].progress,
                                   result |-> qjobs[jobId].returnvalue,
                                   failedReason |-> qjobs[jobId].failedReason])
    /\ UNCHANGED <<qnow, qjobs, retryCalls>>

(***************************************************************************)
(* cancelJob: throws for an id the queue has no job for; job.remove()      *)
(* deletes the job, and is refused by Bull while a worker holds the job.   *)
(***************************************************************************)
CancelJobKeepsRecord(jobId) ==
    /\ qret' = IF ~HasJob(jobId) THEN Ret("NotFound", 0)
               ELSE IF qjobs[jobId].state = "active" THEN Ret("RemoveRefused", 0)
               ELSE Ret("ok", 0)
    /\ UNCHANGED <<qnow, qjobs, retryCalls>>

CancelJob(jobId) ==
    IF ~HasJob(jobId)
    THEN /\ qret' = Ret("NotFound", 0)
         /\ UNCHANGED <<qnow, qjobs, retryCalls>>
    ELSE IF qjobs[jobId].state = "active"
    THEN /\ qret' = Ret("RemoveRefused", 0)
         /\ UNCHANGED <<qnow, qjobs, retryCalls>>
    ELSE /\ qjobs' = [qjobs EXCEPT ![jobId].state = "removed"]
         /\ qret' = Ret("ok", 0)
         /\ UNCHANGED <<qnow, retryCalls>>

(***************************************************************************)
(* cleanOldJobs(grace): queue.clean removes the completed jobs, then the   *)
(* failed jobs, that finished more than grace milliseconds ago.            *)
(***************************************************************************)
GraceInputs == {0, BackoffDelay}

CleanOldJobsAnyState(grace) ==
    /\ qjobs' = [j \in JobIds |->
                    IF qjobs[j].finishedOn < qnow - grace
                    THEN [qjobs[j] EXCEPT !.state = "removed"]
                    ELSE qjobs[j]]
    /\ UNCHANGED <<qnow, retryCalls, qret>>

CleanOldJobs(grace) ==
    /\ qjobs' = [j \in JobIds |->
                    IF /\ qjobs[j].state \in {"completed", "failed"}
                       /\ qjobs[j].finishedOn < qnow - grace
                    THEN [qjobs[j] EXCEPT !.state = "removed"]
                    ELSE qjobs[j]]
    /\ UNCHANGED <<qnow, retryCalls, qret>>

QueueTick ==
    /\ qnow < MaxQueueTicks * BackoffDelay
    /\ qnow' = qnow + BackoffDelay
    /\ UNCHANGED <<qjobs, retryCalls, qret>>

QueueNext ==
    \/ \E url \in Urls, startTime \in StartTimeInputs,
          maxClips \in MaxClipsInputs, io \in BOOLEAN :
          Len(qjobs) < MaxJobs /\ AddProcessingJob(url, startTime, maxClips, io)
                               /\ UNCHANGED <<schedVars, peer>>
    \/ \E scheduledTime \in ScheduledTimeInputs, io \in BOOLEAN :
          Len(qjobs) < MaxJobs /\ AddUploadJob(scheduledTime, io)
                               /\ UNCHANGED <<schedVars, peer>>
    \/ \E j \in JobIds : StartJob(j) /\ UNCHANGED <<schedVars, peer>>
    \/ \E j \in JobIds : PromoteDelayed(j) /\ UNCHANGED <<schedVars, peer>>
    \/ \E j \in JobIds : DownloadDone(j) /\ UNCHANGED <<schedVars, peer>>
    \/ \E j \in JobIds : SplitStep(j) /\ UNCHANGED <<schedVars, peer>>
    \/ \E j \in JobIds, p \in ResizePercents : ResizeProgress(j, p) /\ UNCHANGED <<schedVars, peer>>
    \/ \E j \in JobIds : ResizeDone(j) /\ UNCHANGED <<schedVars, peer>>
    \/ \E j \in JobIds, model \in BOOLEAN, outcome \in AiOutcomes :
          GenerateClip(j, model, outcome) /\ UNCHANGED <<schedVars, peer>>
    \/ \E j \in JobIds : GenerateDone(j) /\ UNCHANGED <<schedVars, peer>>
    \/ \E j \in JobIds, p \in UploadPercents : UploadProgress(j, p) /\ UNCHANGED <<schedVars, peer>>
    \/ \E j \in JobIds, videoId \in VideoIds :
          UploadDone(j, videoId) /\ UNCHANGED <<schedVars, peer>>
    \/ \E j \in JobIds, msg \in StageErrors : StageFails(j, msg) /\ UNCHANGED <<schedVars, peer>>
    \/ \E j \in JobIds : RetryJob(j) /\ UNCHANGED <<schedVars, peer>>
    \/ QueueTick /\ UNCHANGED <<schedVars, peer>>

(***************************************************************************)
(* The queue with its job interface: getJobStatus, cancelJob and retryJob  *)
(* for ids with and without a job.                                         *)
(***************************************************************************)
ApiNext ==
    \/ \E scheduledTime \in ScheduledTimeInputs :
          Len(qjobs) < MaxJobs /\ AddUploadJob(scheduledTime, FALSE)
                               /\ UNCHANGED <<schedVars, peer>>
    \/ \E j \in JobIds : StartJob(j) /\ UNCHANGED <<schedVars, peer>>
    \/ \E j \in JobIds : PromoteDelayed(j) /\ UNCHANGED <<schedVars, peer>>
    \/ \E j \in JobIds, videoId \in VideoIds :
          UploadDone(j, videoId) /\ UNCHANGED <<schedVars, peer>>
    \/ \E j \in JobIds : StageFails(j, "Failed to upload video") /\ UNCHANGED <<schedVars, peer>>
    \/ \E jobId \in JobIdInputs : GetJobStatus(jobId) /\ UNCHANGED <<schedVars, peer>>
    \/ \E jobId \in JobIdInputs : CancelJob(jobId) /\ UNCHANGED <<schedVars, peer>>
    \/ \E jobId \in JobIdInputs : RetryJob(jobId) /\ UNCHANGED <<schedVars, peer>>
    \/ \E grace \in GraceInputs : CleanOldJobs(grace) /\ UNCHANGED <<schedVars, peer>>
    \/ QueueTick /\ UNCHANGED <<schedVars, peer>>

-----------------------------------------------------------------------------
(***************************************************************************)
(* Two scheduler processes on one schedules.json.  Each process has a      *)
(* Scheduler of its own: its maps, its timers and its pending calls; the   *)
(* file, the clock, the queue and the uuid space are common.  The actions  *)
(* above are the steps of the process that runs; peer holds the other      *)
(* process, and Switch hands the turn over.                                *)
(***************************************************************************)
NoPeer == [up |-> FALSE, schedules |-> EmptyMap, jobs |-> EmptyMap,
           stray |-> EmptyBag, inflight |-> [id \in Ids |-> 0]]

PeerInit == peer = NoPeer

(***************************************************************************)
(* The second process starts: its constructor reads the file and arms the  *)
(* timers of the records it finds, as loadSchedules does.                  *)
(***************************************************************************)
PeerStart ==
    /\ ~peer.up
    /\ peer' = [up |-> TRUE, schedules |-> file,
                jobs |-> LoadSchedules(file, now), stray |-> EmptyBag,
                inflight |-> [id \in Ids |-> 0]]
    /\ UNCHANGED schedVars

Switch ==
    /\ peer.up
    /\ schedules' = peer.schedules
    /\ jobs' = peer.jobs
    /\ stray' = peer.stray
    /\ inflight' = peer.inflight
    /\ peer' = [up |-> TRUE, schedules |-> schedules, jobs |-> jobs,
                stray |-> stray, inflight |-> inflight]
    /\ UNCHANGED <<now, file, submits, idCount, jobCount, ret, calls, restarts,
                   diskOk, stale, cancelGuard>>

PeerDueTimers ==
    {id \in DOMAIN peer.jobs :
         peer.jobs[id].kind = "live" /\ peer.jobs[id].time <= now}

TickBoth == PeerDueTimers = {} /\ Tick

-----------------------------------------------------------------------------
(***************************************************************************)
(* The specifications.  Spec is the scheduler on UTC instants with every   *)
(* operation; SpecInput is the scheduler with every way of writing a time; *)
(* SpecQueue is the job queue.                                             *)
(***************************************************************************)
SchedNext ==
    \/ \E t \in UtcInputs : ScheduleUpload("clipA", t, "UTC") /\ UNCHANGED <<queueVars, peer>>
    \/ \E id \in Ids : FireMapped(id) /\ UNCHANGED <<queueVars, peer>>
    \/ \E id \in Ids : FireStray(id) /\ UNCHANGED <<queueVars, peer>>
    \/ \E id \in Ids : ExecuteUploadResolve(id) /\ UNCHANGED <<queueVars, peer>>
    \/ \E id \in Ids, msg \in ErrorMessages : ExecuteUploadReject(id, msg) /\ UNCHANGED <<queueVars, peer>>
    \/ \E id \in Ids : CancelSchedule(id) /\ UNCHANGED <<queueVars, peer>>
    \/ \E id \in Ids, t \in UtcInputs : Reschedule(id, t, "UTC") /\ UNCHANGED <<queueVars, peer>>
    \/ \E daysOld \in DaysOldInputs : CleanOldSchedules(daysOld) /\ UNCHANGED <<queueVars, peer>>
    \/ \E down \in 0..MaxTime : Restart(down) /\ UNCHANGED <<queueVars, peer>>
    \/ Tick /\ UNCHANGED <<queueVars, peer>>

Init == SchedInit /\ QueueInit /\ PeerInit

Spec == Init /\ [][SchedNext]_vars

(***************************************************************************)
(* The scheduler with every way of writing a time: both payloads, both     *)
(* zones, strings with and without a UTC designator.                       *)
(***************************************************************************)
InputNext ==
    \/ \E data \in Payloads, t \in TimeInputs, tz \in Zones :
          ScheduleUpload(data, t, tz) /\ UNCHANGED <<queueVars, peer>>
    \/ \E id \in Ids : FireMapped(id) /\ UNCHANGED <<queueVars, peer>>
    \/ \E id \in Ids : ExecuteUploadResolve(id) /\ UNCHANGED <<queueVars, peer>>
    \/ \E id \in Ids, msg \in ErrorMessages : ExecuteUploadReject(id, msg) /\ UNCHANGED <<queueVars, peer>>
    \/ \E id \in Ids : CancelSchedule(id) /\ UNCHANGED <<queueVars, peer>>
    \/ Tick /\ UNCHANGED <<queueVars, peer>>

SpecInput == Init /\ [][InputNext]_vars

SpecQueue == Init /\ [][QueueNext]_vars

SpecApi == Init /\ [][ApiNext]_vars

(***************************************************************************)
(* The queue under a burst of jobs of both types: what matters is which    *)
(* jobs hold a worker slot, so a handler either returns or throws at its   *)
(* first adapter call.                                                     *)
(***************************************************************************)
BurstNext ==
    \/ Len(qjobs) < MaxBurst /\ AddProcessingJob("long", 0, 0, FALSE) /\ UNCHANGED <<schedVars, peer>>
    \/ Len(qjobs) < MaxBurst /\ AddUploadJob(0, FALSE) /\ UNCHANGED <<schedVars, peer>>
    \/ \E j \in JobIds : StartJob(j) /\ UNCHANGED <<schedVars, peer>>
    \/ \E j \in JobIds : UploadDone(j, "vidA") /\ UNCHANGED <<schedVars, peer>>
    \/ \E j \in JobIds : StageFails(j, "Failed to download video") /\ UNCHANGED <<schedVars, peer>>

SpecBurst == Init /\ [][BurstNext]_vars

(***************************************************************************)
(* The scheduler with scheduleBulk as the only way to create Schedules.    *)
(***************************************************************************)
BulkNext ==
    \/ \E uploads \in UploadLists, pattern \in Patterns :
          ScheduleBulk(uploads, pattern) /\ UNCHANGED <<queueVars, peer>>
    \/ \E id \in Ids : FireMapped(id) /\ UNCHANGED <<queueVars, peer>>
    \/ \E id \in Ids : ExecuteUploadResolve(id) /\ UNCHANGED <<queueVars, peer>>
    \/ \E id \in Ids : CancelSchedule(id) /\ UNCHANGED <<queueVars, peer>>
    \/ Tick /\ UNCHANGED <<queueVars, peer>>

SpecBulk == Init /\ [][BulkNext]_vars

(***************************************************************************)
(* The scheduler with its queries: Schedules are created, fire, are        *)
(* cancelled and rescheduled while getUpcoming is asked for any limit.     *)
(***************************************************************************)
QueryNext ==
    \/ \E t \in UtcInputs : ScheduleUpload("clipA", t, "UTC") /\ UNCHANGED <<queueVars, peer>>
    \/ \E id \in Ids : FireMapped(id) /\ UNCHANGED <<queueVars, peer>>
    \/ \E id \in Ids : ExecuteUploadResolve(id) /\ UNCHANGED <<queueVars, peer>>
    \/ \E id \in Ids : CancelSchedule(id) /\ UNCHANGED <<queueVars, peer>>
    \/ \E id \in Ids, t \in UtcInputs : Reschedule(id, t, "UTC") /\ UNCHANGED <<queueVars, peer>>
    \/ \E limit \in LimitInputs : GetUpcoming(limit) /\ UNCHANGED <<queueVars, peer>>
    \/ Tick /\ UNCHANGED <<queueVars, peer>>

SpecQuery == Init /\ [][QueryNext]_vars

(***************************************************************************)
(* Two scheduler processes: either creates Schedules, their timers fire,   *)
(* the upload calls return.                                                *)
(***************************************************************************)
TwoNext ==
    \/ \E t \in UtcInputs : ScheduleUpload("clipA", t, "UTC")
                                /\ UNCHANGED <<queueVars, peer>>
    \/ \E id \in Ids : FireMapped(id) /\ UNCHANGED <<queueVars, peer>>
    \/ \E id \in Ids : ExecuteUploadResolve(id) /\ UNCHANGED <<queueVars, peer>>
    \/ PeerStart /\ UNCHANGED queueVars
    \/ Switch /\ UNCHANGED queueVars
    \/ TickBoth /\ UNCHANGED <<queueVars, peer>>

SpecTwo == Init /\ [][TwoNext]_vars

(***************************************************************************)
(* The scheduler on a disk that can fail: writeFileSync in saveSchedules   *)
(* throws while the disk is out of order (full, read-only), and works      *)
(* again afterwards.  reschedule is called with the latest time only.      *)
(***************************************************************************)
DiskFlip ==
    /\ diskOk' = ~diskOk
    /\ UNCHANGED <<now, schedules, file, jobs, stray, inflight, submits, idCount,
                   jobCount, ret, calls, restarts, stale, cancelGuard>>

DiskNext ==
    \/ \E t \in UtcInputs : ScheduleUpload("clipA", t, "UTC") /\ UNCHANGED <<queueVars, peer>>
    \/ \E id \in Ids : FireMapped(id) /\ UNCHANGED <<queueVars, peer>>
    \/ \E id \in Ids : ExecuteUploadResolve(id) /\ UNCHANGED <<queueVars, peer>>
    \/ \E id \in Ids : CancelSchedule(id) /\ UNCHANGED <<queueVars, peer>>
    \/ \E id \in Ids : Reschedule(id, ToISOString(MaxTime), "UTC") /\ UNCHANGED <<queueVars, peer>>
    \/ \E daysOld \in DaysOldInputs : CleanOldSchedules(daysOld) /\ UNCHANGED <<queueVars, peer>>
    \/ DiskFlip /\ UNCHANGED <<queueVars, peer>>
    \/ Tick /\ UNCHANGED <<queueVars, peer>>

SpecDisk == Init /\ [][DiskNext]_vars

(***************************************************************************)
(* The scheduler and the queue together.  The await of executeUpload       *)
(* returns when the queue has taken the upload job: the job is in the      *)
(* queue and the record holds what addUploadJob returned.  The upload data *)
(* of a Schedule carries no scheduledTime and no listener.  From then on   *)
(* the job is run, retried, cancelled and swept by the queue.              *)
(***************************************************************************)
SubmitReturns(id) ==
    /\ ExecuteUploadResolve(id)
    /\ AddUploadJob(0, FALSE)

UploadJobFailsMarksSchedule(j) ==
    LET owners == {id \in DOMAIN schedules : schedules[id].result = j}
    IN  /\ StageFails(j, "Failed to upload video")
        /\ schedules' = [id \in DOMAIN schedules |->
                            IF id \in owners
                            THEN [schedules[id] EXCEPT !.status = "failed"]
                            ELSE schedules[id]]
        /\ SaveSchedules(schedules')
        /\ UNCHANGED <<now, jobs, stray, inflight, submits, idCount, jobCount,
                       ret, calls, restarts, diskOk, stale, cancelGuard>>

UploadJobFails(j) ==
    /\ StageFails(j, "Failed to upload video")
    /\ UNCHANGED schedVars

HandoffNext ==
    \/ \E t \in UtcInputs : ScheduleUpload("clipA", t, "UTC") /\ UNCHANGED <<queueVars, peer>>
    \/ \E id \in Ids : FireMapped(id) /\ UNCHANGED <<queueVars, peer>>
    \/ \E id \in Ids : SubmitReturns(id) /\ UNCHANGED peer
    \/ \E j \in JobIds : StartJob(j) /\ UNCHANGED <<schedVars, peer>>
    \/ \E j \in JobIds : PromoteDelayed(j) /\ UNCHANGED <<schedVars, peer>>
    \/ \E j \in JobIds : UploadDone(j, "vidA") /\ UNCHANGED <<schedVars, peer>>
    \/ \E j \in JobIds : UploadJobFails(j) /\ UNCHANGED peer
    \/ \E jobId \in JobIds : CancelJob(jobId) /\ UNCHANGED <<schedVars, peer>>
    \/ CleanOldJobs(0) /\ UNCHANGED <<schedVars, peer>>
    \/ QueueTick /\ UNCHANGED <<schedVars, peer>>
    \/ Tick /\ UNCHANGED <<queueVars, peer>>

SpecHandoff == Init /\ [][HandoffNext]_vars

-----------------------------------------------------------------------------
(***************************************************************************)
(* C1: a job whose handler fails on every attempt is executed exactly      *)
(* three times by the automatic retry policy and is then failed with       *)
(* attempts = 3 and a non-empty failure reason; the policy starts no       *)
(* fourth execution.  execs counts the handler's invocations, manual the   *)
(* retryJob calls that went through.                                       *)
(***************************************************************************)
C1_ThreeAttemptsThenFailed ==
    \A j \in JobIds :
        LET job == qjobs[j]
        IN  /\ job.execs - job.manual <= 3
            /\ (job.manual = 0 /\ job.state \in {"waiting", "active", "delayed"})
                   => job.attemptsMade < 3
            /\ (job.manual = 0 /\ job.state = "failed")
                   => /\ job.attemptsMade = 3
                      /\ job.execs = 3
                      /\ job.failedReason # ""

C1_Witness ==
    \E j \in JobIds :
        /\ qjobs[j].state = "failed"
        /\ qjobs[j].manual = 0
        /\ qjobs[j].execs = 3
        /\ qjobs[j].failedReason \in StageErrors

(***************************************************************************)
(* C2: within one attempt of a process-video job the progress written is   *)
(* non-decreasing, and the job completes with progress 100.                *)
(***************************************************************************)
C2_ProgressMonotone ==
    [][\A j \in JobIds :
          LET job == qjobs[j]
              next == qjobs'[j]
          IN  job.name = "process-video" /\ job.state = "active" =>
                 /\ (next.state = "active" /\ next.execs = job.execs)
                        => next.progress >= job.progress
                 /\ next.state = "completed" => next.progress = Percent(100)]_vars

(***************************************************************************)
(* C3: while a process-video job downloads its progress lies in [10, 30],  *)
(* while it splits and resizes in [30, 70], whatever percentage the        *)
(* adapters report.                                                        *)
(***************************************************************************)
C3_ProgressInStageRange ==
    \A j \in JobIds :
        LET job == qjobs[j]
        IN  (job.name = "process-video" /\ job.state = "active") =>
               /\ job.pc = "downloading"
                      => (Percent(10) <= job.progress /\ job.progress <= Percent(30))
               /\ job.pc \in {"splitting", "resizing"}
                      => (Percent(30) <= job.progress /\ job.progress <= Percent(70))

(***************************************************************************)
(* C4: after cancelSchedule is applied to a Schedule whose status is       *)
(* 'scheduled', the status is 'cancelled' and no upload job is submitted   *)
(* from that Schedule afterwards.  Stated here for the behaviours in which *)
(* the Schedule is not rescheduled after the cancellation and the process  *)
(* keeps running (cancelGuard holds exactly such ids): the claim covers    *)
(* these and more.                                                         *)
(***************************************************************************)
C4_CancelledNeverSubmits ==
    [][\A id \in Ids :
          /\ (id \in cancelGuard' \ cancelGuard) => schedules'[id].status = "cancelled"
          /\ (id \in cancelGuard /\ id \in cancelGuard') => submits'[id] = submits[id]
      ]_schedVars

(***************************************************************************)
(* C5: in every reachable state every Schedule id has at most one live     *)
(* timer.                                                                  *)
(***************************************************************************)
C5_AtMostOneLiveTimer == \A id \in Ids : LiveTimers(id) <= 1

(***************************************************************************)
(* C6: a Schedule that has reached status 'completed' never enters         *)
(* executeUpload again and submits no second upload job.  Stated for the   *)
(* steps taken while the status is 'completed': the claim covers these and *)
(* more.                                                                   *)
(***************************************************************************)
C6_CompletedNeverRefires ==
    [][\A id \in DOMAIN schedules :
          schedules[id].status = "completed" => submits'[id] = submits[id]
      ]_schedVars

(***************************************************************************)
(* C7: scheduleUpload with a time that, read in the given timezone, is not *)
(* strictly after now fails with InvalidTime and leaves the schedule       *)
(* store, the persisted file and the timers unchanged.                     *)
(***************************************************************************)
NotAfterNow(t, tz) ==
    (t.wall - (IF t.zoned THEN 0 ELSE IF tz = "Europe/Paris" THEN 1 ELSE 0)) <= now

C7_PastTimeRejected ==
    [][\A data \in Payloads, t \in TimeInputs, tz \in Zones :
          (NotAfterNow(t, tz) /\ ScheduleUpload(data, t, tz)) =>
              /\ ret' = Ret("InvalidTime", 0)
              /\ UNCHANGED <<schedules, file, jobs, stray, idCount>>
      ]_schedVars

C7_Witness ==
    /\ ret.code = "InvalidTime"
    /\ now > 0
    /\ \E id \in DOMAIN schedules : MappedLive(id)

(***************************************************************************)
(* C8: when the timer of a Schedule fires the Schedule becomes             *)
(* 'executing' and addUploadJob is called once with its uploadData; when   *)
(* that call returns the Schedule is 'completed' with the job id recorded, *)
(* when it fails the Schedule is 'failed' with the message recorded; no    *)
(* other Schedule changes.                                                 *)
(***************************************************************************)
OthersUnchanged(id) ==
    /\ DOMAIN schedules' \ {id} = DOMAIN schedules \ {id}
    /\ \A o \in DOMAIN schedules \ {id} : schedules'[o] = schedules[o]

C8_FiringOutcome ==
    [][\A id \in Ids :
          /\ (inflight'[id] = inflight[id] + 1) =>
                /\ id \in DOMAIN schedules'
                /\ schedules'[id].status = "executing"
                /\ submits'[id] = Append(submits[id], schedules[id].uploadData)
                /\ OthersUnchanged(id)
          /\ (inflight'[id] = inflight[id] - 1 /\ restarts' = restarts) =>
                /\ id \in DOMAIN schedules'
                /\ OthersUnchanged(id)
                /\ IF jobCount' # jobCount
                   THEN /\ schedules'[id].status = "completed"
                        /\ schedules'[id].result = jobCount'
                   ELSE /\ schedules'[id].status = "failed"
                        /\ schedules'[id].error \in ErrorMessages
      ]_schedVars

(***************************************************************************)
(* C9: after a restart every persisted Schedule that is 'scheduled' with a *)
(* time still ahead is loaded unchanged and has exactly one timer, armed   *)
(* for its scheduledTime; that timer fires at that time, submits one job   *)
(* and is spent.                                                           *)
(***************************************************************************)
C9_ReloadRearms ==
    [][/\ (restarts' # restarts) =>
            \A id \in DOMAIN file :
                (file[id].status = "scheduled" /\ file[id].scheduledTime > now') =>
                    /\ id \in DOMAIN schedules'
                    /\ schedules'[id] = file[id]
                    /\ id \in DOMAIN jobs'
                    /\ jobs'[id] = LiveHandle(file[id].scheduledTime)
                    /\ LiveTimers(id)' = 1
       /\ \A id \in DOMAIN jobs :
            (jobs[id].kind = "live" /\ id \in DOMAIN jobs' /\ jobs'[id] = SpentHandle) =>
                /\ now = jobs[id].time
                /\ LiveTimers(id)' = LiveTimers(id) - 1
                /\ id \in DOMAIN schedules => Len(submits'[id]) = Len(submits[id]) + 1
      ]_schedVars

C9_Witness ==
    /\ restarts = 1
    /\ \E id \in DOMAIN schedules :
          /\ inflight[id] = 1
          /\ Len(submits[id]) = 1
          /\ schedules[id].status = "executing"
          /\ schedules[id].scheduledTime = now
          /\ schedules[id].createdAt = 0
          /\ calls = 1

(***************************************************************************)
(* C10: a Schedule loaded at start as 'scheduled' with a time that is not  *)
(* ahead has no timer, is not executed and stays 'scheduled' until         *)
(* cancelSchedule or reschedule is applied to it.                          *)
(***************************************************************************)
C10_StaleStaysScheduled ==
    \A id \in stale :
        /\ id \in DOMAIN schedules
        /\ schedules[id].status = "scheduled"
        /\ schedules[id].scheduledTime <= now
        /\ LiveTimers(id) = 0
        /\ inflight[id] = 0

C10_Witness ==
    \E id \in stale :
        /\ schedules[id].scheduledTime < now
        /\ submits[id] = <<>>
        /\ ret.code = "cleaned"

(***************************************************************************)
(* C11: a successful scheduleBulk over n uploads returns n entries in      *)
(* upload order, each a new Schedule of its own with status 'scheduled',   *)
(* the i-th (0-based) at start + i * interval hours for type interval, at  *)
(* start + i days for type daily, at times[i] for type custom.             *)
(***************************************************************************)
InZone(t, tz) ==
    t.wall - (IF t.zoned THEN 0 ELSE IF tz = "Europe/Paris" THEN 1 ELSE 0)

ExpectedTime(pattern, i) ==
    IF pattern.type = "interval"
    THEN InZone(pattern.startTime, pattern.timezone) + i * pattern.interval
    ELSE IF pattern.type = "daily"
    THEN InZone(pattern.startTime, pattern.timezone) + i * 24
    ELSE InZone(pattern.times[i + 1], pattern.timezone)

C11_BulkTimes ==
    \A uploads \in UploadLists, pattern \in Patterns :
        LET out == Bulk(uploads, pattern)
            n == Len(uploads)
        IN  (pattern.type \in {"interval", "daily", "custom"} /\ out.code = "bulk") =>
               /\ Len(out.results) = n
               /\ \A i \in 1..n :
                     LET r == out.results[i]
                     IN  /\ r.scheduleId \notin DOMAIN schedules
                         /\ r.scheduleId \in DOMAIN out.schedules
                         /\ r.status = "scheduled"
                         /\ r.scheduledTime = ExpectedTime(pattern, i - 1)
                         /\ out.schedules[r.scheduleId].status = "scheduled"
                         /\ out.schedules[r.scheduleId].uploadData = uploads[i]
                         /\ out.schedules[r.scheduleId].scheduledTime
                                = ExpectedTime(pattern, i - 1)
               /\ \A i, j \in 1..n :
                     i # j => out.results[i].scheduleId # out.results[j].scheduleId

C11_Witness ==
    /\ ret.code = "bulk"
    /\ Len(ret.val) = 2
    /\ \A i \in 1..2 : /\ ret.val[i].scheduleId \in DOMAIN schedules
                       /\ schedules[ret.val[i].scheduleId].status = "scheduled"
    /\ schedules[ret.val[2].scheduleId].scheduledTime
           = schedules[ret.val[1].scheduleId].scheduledTime + 2

(***************************************************************************)
(* C12, as claimed: scheduleBulk of type custom with fewer times than      *)
(* uploads fails with InsufficientTimes and leaves the schedule store and  *)
(* the armed timers as they were.  Stated for times that are all in the    *)
(* future, so that no other error can come first.                          *)
(***************************************************************************)
C12_NoRecordsOnFailure ==
    [][\A uploads \in UploadLists, pattern \in Patterns :
          (/\ pattern.type = "custom"
           /\ Len(pattern.times) < Len(uploads)
           /\ \A i \in 1..Len(pattern.times) :
                 InZone(pattern.times[i], pattern.timezone) > now
           /\ ScheduleBulk(uploads, pattern)) =>
              /\ ret'.code = "InsufficientTimes"
              /\ schedules' = schedules
              /\ jobs' = jobs
      ]_vars

(***************************************************************************)
(* C12, amended: the call fails after it has scheduled the uploads that    *)
(* come before the failing one.  With k the number of leading times that   *)
(* are in the future, it fails with InsufficientTimes when k is the length *)
(* of times and with InvalidTime otherwise; exactly k Schedules are added, *)
(* the i-th at times[i] with the i-th upload, each with a timer; every     *)
(* earlier Schedule and timer is as it was.                                *)
(***************************************************************************)
RECURSIVE LeadingFuture(_, _, _)
LeadingFuture(times, tz, k) ==
    IF k < Len(times) /\ InZone(times[k + 1], tz) > now
    THEN LeadingFuture(times, tz, k + 1)
    ELSE k

C12_PartialCommit ==
    \A uploads \in UploadLists, pattern \in Patterns :
        (pattern.type = "custom" /\ Len(pattern.times) < Len(uploads)) =>
            LET out == Bulk(uploads, pattern)
                k == LeadingFuture(pattern.times, pattern.timezone, 0)
                added == DOMAIN out.schedules \ DOMAIN schedules
            IN  /\ out.code = IF k = Len(pattern.times) THEN "InsufficientTimes"
                                                         ELSE "InvalidTime"
                /\ Cardinality(added) = k
                /\ DOMAIN schedules \subseteq DOMAIN out.schedules
                /\ \A id \in DOMAIN schedules : out.schedules[id] = schedules[id]
                /\ \A id \in DOMAIN jobs :
                      id \in DOMAIN out.jobs /\ out.jobs[id] = jobs[id]
                /\ \A i \in 1..k :
                      \E id \in added :
                          /\ out.schedules[id].uploadData = uploads[i]
                          /\ out.schedules[id].status = "scheduled"
                          /\ out.schedules[id].scheduledTime
                                 = InZone(pattern.times[i], pattern.timezone)
                          /\ out.jobs[id] = LiveHandle(out.schedules[id].scheduledTime)

C12_Witness ==
    /\ ret.code = "InsufficientTimes"
    /\ Cardinality(DOMAIN schedules) = 1
    /\ \A id \in DOMAIN schedules : schedules[id].status = "scheduled" /\ MappedLive(id)

(***************************************************************************)
(* C13: scheduleBulk with a pattern type other than interval, daily and    *)
(* custom fails with InvalidPattern for every list of uploads, the empty   *)
(* one included, and creates no record.                                    *)
(***************************************************************************)
C13_UnknownTypeRejected ==
    [][\A uploads \in UploadLists, pattern \in Patterns :
          (/\ pattern.type \notin {"interval", "daily", "custom"}
           /\ ScheduleBulk(uploads, pattern)) =>
              /\ ret'.code = "InvalidPattern"
              /\ schedules' = schedules
              /\ jobs' = jobs
      ]_vars

(***************************************************************************)
(* C14: a Schedule becomes 'cancelled' only from 'scheduled', so           *)
(* cancelSchedule leaves an executing, completed or failed Schedule as it  *)
(* is, and a 'cancelled' Schedule never becomes 'completed' or 'failed'.   *)
(***************************************************************************)
C14_CancelOnlyFromScheduled ==
    [][\A id \in DOMAIN schedules :
          id \in DOMAIN schedules' =>
             /\ (schedules'[id].status = "cancelled"
                   /\ schedules[id].status # "cancelled")
                    => schedules[id].status = "scheduled"
             /\ schedules[id].status = "cancelled"
                    => schedules'[id].status \notin {"completed", "failed"}
      ]_vars

(***************************************************************************)
(* C15: after reschedule(id, newTime, timezone) on a known Schedule the    *)
(* Schedule is 'scheduled' with newTime and timezone stored, the one live  *)
(* timer it has is the new one, armed for newTime; on an unknown id the    *)
(* call fails with NotFound and changes no record and no timer.            *)
(***************************************************************************)
C15_RescheduleRearms ==
    [][\A id \in Ids, t \in UtcInputs :
          Reschedule(id, t, "UTC") =>
             IF id \in DOMAIN schedules
             THEN /\ schedules'[id].status = "scheduled"
                  /\ schedules'[id].scheduledTime = t.wall
                  /\ schedules'[id].timezone = "UTC"
                  /\ jobs'[id] = [kind |-> "live", time |-> t.wall]
                  /\ LiveTimers(id)' = 1
             ELSE /\ ret'.code = "NotFound"
                  /\ UNCHANGED <<schedules, file, jobs, stray>>
      ]_vars

(***************************************************************************)
(* C16: at any time at most 2 process-video jobs are active and,           *)
(* independently, at most 3 upload-video jobs are active, however many     *)
(* jobs of both types were submitted.                                      *)
(***************************************************************************)
C16_PerTypeConcurrency ==
    /\ Cardinality({j \in JobIds : /\ qjobs[j].name = "process-video"
                                   /\ qjobs[j].state = "active"}) <= 2
    /\ Cardinality({j \in JobIds : /\ qjobs[j].name = "upload-video"
                                   /\ qjobs[j].state = "active"}) <= 3

(***************************************************************************)
(* C17: the first failed attempt delays the job by at least 5 s and the    *)
(* second by at least 10 s, a delayed job leaves the delay only once its   *)
(* time has come and then waits for a worker, and the third failed attempt *)
(* fails the job with the message of the stage that threw.                 *)
(***************************************************************************)
C17_BackoffThenFailed ==
    [][\A j \in JobIds :
          LET job == qjobs[j]
              next == qjobs'[j]
              failedNow == next.attemptsMade = job.attemptsMade + 1
          IN  /\ (failedNow /\ next.attemptsMade = 1)
                     => (next.state = "delayed" /\ next.runAt >= qnow + 5000)
              /\ (failedNow /\ next.attemptsMade = 2)
                     => (next.state = "delayed" /\ next.runAt >= qnow + 10000)
              /\ (job.state = "delayed" /\ next.state \notin {"delayed", "removed"})
                     => (next.state = "waiting" /\ qnow >= job.runAt)
              /\ (failedNow /\ next.attemptsMade = 3)
                     => /\ next.state = "failed"
                        /\ next.failedReason \in StageErrors
                        /\ job.pc \in StageOf(next.failedReason)
      ]_vars

C17_Witness ==
    \E j \in JobIds :
        /\ qjobs[j].state = "failed"
        /\ qjobs[j].attemptsMade = 3
        /\ qjobs[j].failedReason = "Failed to upload video"
        /\ qnow >= 15000

(***************************************************************************)
(* C18: a job's count of attempts never exceeds 3, whatever automatic      *)
(* retries and retryJob calls on failed jobs take place.                   *)
(***************************************************************************)
C18_AttemptsCapped == \A j \in JobIds : qjobs[j].attemptsMade <= 3

(***************************************************************************)
(* C19: an upload-video job added with a scheduledTime in the future is    *)
(* created delayed and is not active before that time; one added without   *)
(* scheduledTime, or with one that is not in the future, is created        *)
(* waiting.                                                                *)
(***************************************************************************)
C19_ScheduledUploadDelayed ==
    [][/\ (Len(qjobs') = Len(qjobs) + 1 /\ qjobs'[Len(qjobs')].name = "upload-video")
            => LET job == qjobs'[Len(qjobs')]
               IN  /\ job.scheduledTime > qnow => job.state = "delayed"
                   /\ (job.scheduledTime = 0 \/ job.scheduledTime <= qnow)
                          => job.state = "waiting"
       /\ \A j \in 1..Len(qjobs') :
             (/\ qjobs'[j].name = "upload-video"
              /\ qjobs'[j].state = "active"
              /\ qjobs'[j].scheduledTime # 0) => qnow' >= qjobs'[j].scheduledTime
      ]_vars

C19_Witness ==
    \E j \in JobIds :
        /\ qjobs[j].name = "upload-video"
        /\ qjobs[j].scheduledTime = 5000
        /\ qjobs[j].state = "active"
        /\ qjobs[j].execs = 1
        /\ qnow = 5000

(***************************************************************************)
(* C20: getJobStatus, cancelJob and retryJob for an id that has no job     *)
(* (never added, or removed) fail with NotFound and change no job; a       *)
(* cancelJob that succeeds removes the job, and a removed job is never     *)
(* executed, retried or otherwise changed again.                           *)
(***************************************************************************)
NoJob(jobId) == jobId > Len(qjobs) \/ qjobs[jobId].state = "removed"

C20_AbsentJobNotFound ==
    [][/\ \A jobId \in JobIdInputs :
             (NoJob(jobId) /\ (GetJobStatus(jobId) \/ CancelJob(jobId) \/ RetryJob(jobId)))
                 => (qret'.code = "NotFound" /\ qjobs' = qjobs)
       /\ \A jobId \in JobIdInputs :
             (~NoJob(jobId) /\ CancelJob(jobId) /\ qret'.code = "ok")
                 => NoJob(jobId)'
       /\ \A j \in JobIds :
             qjobs[j].state = "removed" => qjobs'[j] = qjobs[j]
      ]_vars

C20_Witness ==
    /\ qret.code = "NotFound"
    /\ \E j \in JobIds : /\ qjobs[j].state = "removed"
                         /\ qjobs[j].execs >= 1
                         /\ qjobs[j].attemptsMade = 1

(***************************************************************************)
(* C21: for every outcome of the AI call (no model configured, the call    *)
(* raises, a well-formed response, a response that does not follow the     *)
(* TITLE:/DESCRIPTION: format) the content generated for a clip has a      *)
(* non-empty title and a non-empty description, in the batch a job builds  *)
(* and in the result it completes with.                                    *)
(***************************************************************************)
C21_ContentNeverEmpty ==
    \A j \in JobIds :
        /\ \A k \in 1..Len(qjobs[j].aiBatch) :
              /\ NonEmpty(qjobs[j].aiBatch[k].title)
              /\ NonEmpty(qjobs[j].aiBatch[k].description)
        /\ \A k \in 1..Len(qjobs[j].returnvalue.results.aiContent) :
              /\ NonEmpty(qjobs[j].returnvalue.results.aiContent[k].title)
              /\ NonEmpty(qjobs[j].returnvalue.results.aiContent[k].description)

(***************************************************************************)
(* C22: an upload-video job makes one Uploader call per attempt; when it   *)
(* is completed its result is what the uploader returned and its persisted *)
(* progress is 100.                                                        *)
(***************************************************************************)
C22_UploadOutcome ==
    \A j \in JobIds :
        LET job == qjobs[j]
        IN  job.name = "upload-video" =>
               /\ job.uploaderCalls = job.execs
               /\ job.state = "completed" =>
                     /\ job.returnvalue.kind = "uploaded"
                     /\ job.returnvalue.id \in VideoIds
                     /\ job.returnvalue.url = WatchUrl(job.returnvalue.id)
                     /\ job.progress = Percent(100)

(***************************************************************************)
(* C23: a completed process-video job has progress 100, and its result     *)
(* holds the metadata of the source video, the clip list of the Clip       *)
(* Processor in clip order and one generated title/description entry per   *)
(* clip, in the same order, each with that clip's id; the Content          *)
(* Generator was called once per clip, and while the batch is built it has *)
(* been called once per entry so far.                                      *)
(***************************************************************************)
C23_CompletedResult ==
    \A j \in JobIds :
        LET job == qjobs[j]
            result == job.returnvalue.results
        IN  job.name = "process-video" =>
               /\ (job.state = "active" /\ job.pc = "generating-ai") =>
                     /\ job.generatorCalls = Len(job.aiBatch)
                     /\ Len(job.aiBatch) <= Len(job.results.clips)
               /\ job.state = "completed" =>
                     /\ job.progress = Percent(100)
                     /\ job.returnvalue.kind = "results"
                     /\ result.videoInfo = VideoInfo(job.url)
                     /\ result.clips = ClipList(job, job.clips)
                     /\ \A k \in 1..Len(result.clips) :
                           result.clips[k].index = k - 1
                     /\ Len(result.aiContent) = Len(result.clips)
                     /\ \A k \in 1..Len(result.clips) :
                           result.aiContent[k].clipId = result.clips[k].id
                     /\ job.generatorCalls = Len(result.clips)

C23_Witness ==
    \E j \in JobIds :
        /\ qjobs[j].name = "process-video"
        /\ qjobs[j].state = "completed"
        /\ Len(qjobs[j].returnvalue.results.clips) = MaxClips
        /\ Len(qjobs[j].returnvalue.results.aiContent) = MaxClips
        /\ qjobs[j].execs > 1

(***************************************************************************)
(* C24: what a job becomes does not depend on a progress listener.  Every  *)
(* step a handler takes on a job is a step it can take on the same job     *)
(* with the listener taken away, or added, with the same outcome but for   *)
(* the event emitted: same state, result, progress and position.  By       *)
(* induction two runs that differ only in the listener end alike.          *)
(***************************************************************************)
Mute(job) == [job EXCEPT !.io = FALSE, !.event = NoEvent]

Twin(job) == [job EXCEPT !.io = ~job.io, !.event = NoEvent]

HandlerOutcomes(job) ==
    IF job.state = "waiting"
    THEN {HandlerEntry([job EXCEPT !.state = "active", !.execs = @ + 1])}
    ELSE IF job.state # "active" THEN {}
    ELSE IF job.pc = "downloading"
    THEN {DownloadReturns(job), HandlerThrows(job, "Failed to download video")}
    ELSE IF job.pc = "splitting"
    THEN {SplitTurn(job), HandlerThrows(job, "Failed to process video to Shorts")}
    ELSE IF job.pc = "resizing"
    THEN {ResizeReturns(job)}
         \cup {ResizeReports(job, p) : p \in ResizePercents}
         \cup {HandlerThrows(job, "Failed to process video to Shorts")}
    ELSE IF job.pc = "generating-ai"
    THEN {GenerateReturns(job)}
         \cup IF Len(job.aiBatch) < Len(job.results.clips)
              THEN {BatchTurn(job, model, outcome) :
                        model \in BOOLEAN, outcome \in AiOutcomes}
              ELSE {}
    ELSE IF job.pc = "uploading"
    THEN {UploadReturns(job, videoId) : videoId \in VideoIds}
         \cup {UploadReports(job, p) : p \in UploadPercents}
         \cup {HandlerThrows(job, "Failed to upload video")}
    ELSE {}

PcRank(pc) ==
    IF pc = "downloading" THEN 1
    ELSE IF pc \in {"splitting", "resizing"} THEN 2
    ELSE IF pc = "generating-ai" THEN 3
    ELSE 4

StageRank(stage) ==
    IF stage = "downloading" THEN 1
    ELSE IF stage = "processing" THEN 2
    ELSE IF stage = "generating-ai" THEN 3
    ELSE IF stage = "completed" THEN 4
    ELSE 0

C30_EventMatchesProgress ==
    [][\A j \in JobIds :
          LET next == qjobs'[j]
          IN  (next.event # qjobs[j].event /\ next.event.percent # -1) =>
                  next.progress = next.event.percent]_vars

(***************************************************************************)
(* C25: getUpcoming(limit) returns the min(limit, m) records of earliest   *)
(* time among the m records that are 'scheduled' with a time after now,    *)
(* in ascending order of time, returns no other record, and changes no     *)
(* record.  No list has fewer than zero records, so a limit below zero is  *)
(* read as asking for none.                                                *)
(***************************************************************************)
UpcomingSet ==
    {id \in DOMAIN schedules : /\ schedules[id].status = "scheduled"
                               /\ schedules[id].scheduledTime > now}

C25_UpcomingSoonest ==
    [][\A limit \in LimitInputs :
          GetUpcoming(limit) =>
             LET list == ret'.val
                 returned == {list[k] : k \in 1..Len(list)}
                 wanted == Min(limit, Cardinality(UpcomingSet))
             IN  /\ Len(list) = IF wanted < 0 THEN 0 ELSE wanted
                 /\ Cardinality(returned) = Len(list)
                 /\ returned \subseteq UpcomingSet
                 /\ \A k \in 1..(Len(list) - 1) :
                       schedules[list[k]].scheduledTime
                           <= schedules[list[k + 1]].scheduledTime
                 /\ \A id \in returned, o \in UpcomingSet \ returned :
                       schedules[id].scheduledTime <= schedules[o].scheduledTime
                 /\ schedules' = schedules
                 /\ file' = file
                 /\ jobs' = jobs]_vars

(***************************************************************************)
(* C26: cleanOldSchedules(daysOld) deletes exactly the records that are    *)
(* not 'scheduled' and were created before the cutoff, returns how many it *)
(* deleted, deletes no 'scheduled' record and leaves the records it keeps  *)
(* as they were.                                                           *)
(***************************************************************************)
C26_CleanupExact ==
    [][\A daysOld \in DaysOldInputs :
          CleanOldSchedules(daysOld) =>
             LET cutoff == now - daysOld * HoursPerDay
                 old == {id \in DOMAIN schedules :
                             /\ schedules[id].status # "scheduled"
                             /\ schedules[id].createdAt < cutoff}
             IN  /\ DOMAIN schedules' = DOMAIN schedules \ old
                 /\ ret'.val = Cardinality(old)
                 /\ \A id \in DOMAIN schedules :
                       schedules[id].status = "scheduled" =>
                           id \in DOMAIN schedules'
                 /\ \A id \in DOMAIN schedules' : schedules'[id] = schedules[id]
                 /\ file' = IF old = {} THEN file ELSE schedules']_vars

C26_Witness ==
    /\ ret = Ret("cleaned", 1)
    /\ idCount = MaxSchedules
    /\ \E id \in Ids, gone \in Ids :
          /\ gone \notin DOMAIN schedules
          /\ id \in DOMAIN schedules
          /\ schedules[id].status # "scheduled"
          /\ schedules[id].createdAt = now

(***************************************************************************)
(* C27 as stated: a job that is completed or failed keeps its state, its   *)
(* result and its failure reason until cancelJob or the retention sweep    *)
(* removes it.                                                             *)
(***************************************************************************)
C27_UnchangedUntilRemoved ==
    [][\A j \in JobIds :
          LET job == qjobs[j]
              next == qjobs'[j]
          IN  job.state \in {"completed", "failed"} =>
                 \/ next.state = "removed"
                 \/ /\ next.state = job.state
                    /\ next.returnvalue = job.returnvalue
                    /\ next.failedReason = job.failedReason]_vars

(***************************************************************************)
(* C27, amended: a completed job keeps its state, result and progress, and *)
(* a failed job its state and failure reason, until cancelJob or the sweep *)
(* removes it or, for a failed job, retryJob puts it back to waiting;      *)
(* getJobStatus reports what the job holds; the sweep removes only         *)
(* completed and failed jobs that finished more than the grace period ago  *)
(* and changes no other job.                                               *)
(***************************************************************************)
C27_RetainedUntilRemovedOrRetried ==
    [][/\ \A j \in JobIds :
            LET job == qjobs[j]
                next == qjobs'[j]
            IN  /\ job.state = "completed" =>
                      \/ next.state = "removed"
                      \/ /\ next.state = "completed"
                         /\ next.returnvalue = job.returnvalue
                         /\ next.progress = job.progress
                /\ job.state = "failed" =>
                      \/ next.state = "removed"
                      \/ /\ next.state = "failed"
                         /\ next.failedReason = job.failedReason
                      \/ /\ next.state = "waiting"
                         /\ next.manual = job.manual + 1
                         /\ qret' = Ret("ok", 0)
       /\ \A jobId \in JobIds :
            (GetJobStatus(jobId) /\ qjobs[jobId].state \in {"completed", "failed"})
                => /\ qret'.code = "status"
                   /\ qret'.val.state = qjobs[jobId].state
                   /\ qret'.val.result = qjobs[jobId].returnvalue
                   /\ qret'.val.failedReason = qjobs[jobId].failedReason
       /\ \A grace \in GraceInputs :
            CleanOldJobs(grace) =>
                \A j \in JobIds :
                    IF qjobs'[j] # qjobs[j]
                    THEN /\ qjobs[j].state \in {"completed", "failed"}
                         /\ qnow - qjobs[j].finishedOn > grace
                         /\ qjobs'[j].state = "removed"
                    ELSE \/ qjobs[j].state \notin {"completed", "failed"}
                         \/ qnow - qjobs[j].finishedOn <= grace]_vars

C27_Witness ==
    \E j \in JobIds :
        /\ qjobs[j].state = "completed"
        /\ qjobs[j].finishedOn < qnow
        /\ qret = Ret("status", [id |-> j, state |-> "completed",
                                 progress |-> qjobs[j].progress,
                                 result |-> qjobs[j].returnvalue,
                                 failedReason |-> ""])
        /\ qjobs[j].returnvalue.id \in VideoIds

(***************************************************************************)
(* C28: with two scheduler processes on the same store every Schedule      *)
(* leads to at most one addUploadJob call in total, and a record one       *)
(* process has written is not lost when the other rewrites the store.      *)
(***************************************************************************)
C28_TwoProcessesOneSubmit ==
    /\ \A id \in Ids : Len(submits[id]) <= 1
    /\ \A id \in 1..idCount : id \in DOMAIN file

(***************************************************************************)
(* C31: in every reachable state every live timer of a Schedule is the one *)
(* that this.jobs references for its id, and the Schedule it belongs to    *)
(* has status 'scheduled'; so cancelSchedule, which cancels the referenced *)
(* handle, disarms every live timer of the Schedule.                       *)
(***************************************************************************)
C31_LiveTimersMapped ==
    \A id \in Ids :
        /\ StrayCount(id) = 0
        /\ MappedLive(id) => /\ id \in DOMAIN schedules
                             /\ schedules[id].status = "scheduled"

(***************************************************************************)
(* C32: as long as the process was not restarted, every Schedule with      *)
(* status 'scheduled' has exactly one live timer, the one this.jobs        *)
(* references, armed for the record's scheduledTime.                       *)
(***************************************************************************)
C32_ScheduledHasOneTimer ==
    restarts = 0 =>
        \A id \in DOMAIN schedules :
            schedules[id].status = "scheduled" =>
                /\ LiveTimers(id) = 1
                /\ MappedLive(id)
                /\ jobs[id].time = schedules[id].scheduledTime

(***************************************************************************)
(* C33: the persisted store equals the in-memory schedule map after every  *)
(* operation of the scheduler, a successful scheduleUpload included, and   *)
(* no timer is armed for a record of the map that the store does not hold  *)
(* as 'scheduled'.                                                         *)
(***************************************************************************)
C33_StoreMatchesMemory ==
    /\ file = schedules
    /\ \A id \in DOMAIN schedules :
           (MappedLive(id) /\ schedules[id].status = "scheduled")
               => (id \in DOMAIN file /\ file[id].status = "scheduled")

(***************************************************************************)
(* C34: when scheduleBulk fails at upload index k (0-based: a time that is *)
(* not in the future, no custom time left, an unknown pattern type), the   *)
(* Schedules of the uploads 0..k-1 of the call are in the map and in the   *)
(* store with status 'scheduled' and an armed timer, there is none for the *)
(* uploads from k on, what existed before is as it was, and the caller     *)
(* gets the error without any of the created ids.                          *)
(***************************************************************************)
BulkErrors == {"InvalidTime", "InsufficientTimes", "InvalidPattern"}

FailsAt(pattern, i) ==
    \/ pattern.type \notin {"interval", "daily", "custom"}
    \/ pattern.type = "custom" /\ i >= Len(pattern.times)
    \/ ExpectedTime(pattern, i) <= now

RECURSIVE FirstFailure(_, _, _)
FirstFailure(uploads, pattern, i) ==
    IF i < Len(uploads) /\ ~FailsAt(pattern, i)
    THEN FirstFailure(uploads, pattern, i + 1)
    ELSE i

C34_BulkFailureKeepsPrefix ==
    /\ ret.code \in BulkErrors => ret.val = 0
    /\ \A uploads \in UploadLists, pattern \in Patterns :
          LET out == Bulk(uploads, pattern)
              k == FirstFailure(uploads, pattern, 0)
              created == (idCount + 1)..(idCount + k)
          IN  k < Len(uploads) =>
                 /\ out.code \in BulkErrors
                 /\ DOMAIN out.schedules = DOMAIN schedules \cup created
                 /\ DOMAIN out.file = DOMAIN file \cup created
                 /\ \A id \in DOMAIN schedules : out.schedules[id] = schedules[id]
                 /\ \A id \in DOMAIN jobs :
                       id \in DOMAIN out.jobs /\ out.jobs[id] = jobs[id]
                 /\ \A i \in 1..k :
                       LET id == idCount + i
                       IN  /\ out.schedules[id].uploadData = uploads[i]
                           /\ out.schedules[id].status = "scheduled"
                           /\ out.schedules[id].scheduledTime
                                  = ExpectedTime(pattern, i - 1)
                           /\ out.file[id] = out.schedules[id]
                           /\ out.jobs[id] = LiveHandle(ExpectedTime(pattern, i - 1))

C34_Witness ==
    /\ ret = Ret("InvalidTime", 0)
    /\ idCount = 1
    /\ DOMAIN schedules = {1}
    /\ DOMAIN file = {1}
    /\ schedules[1].status = "scheduled"
    /\ schedules[1].scheduledTime = MaxTime
    /\ MappedLive(1)

(***************************************************************************)
(* C35: a Schedule with status 'completed' holds the id of an upload job   *)
(* that the queue took, and no step of a job of the queue (a failed        *)
(* attempt, the terminal failure, its completion, its cancellation, its    *)
(* removal by the sweep) changes any Schedule record, in the map or in the *)
(* store.                                                                  *)
(***************************************************************************)
C35_CompletedMeansEnqueued ==
    [][/\ \A id \in DOMAIN schedules' :
             schedules'[id].status = "completed"
                 => schedules'[id].result \in 1..Len(qjobs')
       /\ (\E j \in JobIds : qjobs'[j] # qjobs[j])
             => (schedules' = schedules /\ file' = file)
      ]_vars

C35_Witness ==
    \E id \in DOMAIN schedules :
        /\ schedules[id].status = "completed"
        /\ schedules[id].error = ""
        /\ schedules[id].result \in JobIds
        /\ qjobs[schedules[id].result].state = "failed"
        /\ qjobs[schedules[id].result].attemptsMade = Attempts

(***************************************************************************)
(* C36: a Schedule that the store held as 'executing' when the process     *)
(* stopped has, after the restart, no timer and no pending executeUpload   *)
(* call; no upload is submitted from it, and its record stays as it is     *)
(* until cancelSchedule, reschedule or cleanOldSchedules is applied.  In a *)
(* process that was restarted these are the 'executing' records without a  *)
(* pending call.                                                           *)
(***************************************************************************)
Orphaned(id) ==
    /\ restarts > 0
    /\ id \in DOMAIN schedules
    /\ schedules[id].status = "executing"
    /\ inflight[id] = 0

C36_OrphanStaysExecuting ==
    [][\A id \in Ids :
          Orphaned(id) =>
             /\ LiveTimers(id) = 0
             /\ submits'[id] = submits[id]
             /\ inflight'[id] = 0
             /\ \/ id \in DOMAIN schedules' /\ schedules'[id] = schedules[id]
                \/ CancelSchedule(id)
                \/ \E t \in UtcInputs : Reschedule(id, t, "UTC")
                \/ \E daysOld \in DaysOldInputs : CleanOldSchedules(daysOld)
      ]_vars

C36_Witness ==
    \E id \in Ids :
        /\ Orphaned(id)
        /\ file[id].status = "executing"
        /\ now > schedules[id].scheduledTime
        /\ Len(submits[id]) = 1

(***************************************************************************)
(* C37: cleanOldSchedules never deletes a Schedule whose execution is in   *)
(* progress: while an executeUpload call for an id awaits addUploadJob,    *)
(* the record of that id is in the map and in the store, so that the       *)
(* outcome the call writes is kept.                                        *)
(***************************************************************************)
C37_ExecutingNotDeleted ==
    \A id \in Ids :
        inflight[id] > 0 => (id \in DOMAIN schedules /\ id \in DOMAIN file)

(***************************************************************************)
(* C38: when no attempt of a process-video job is running (the job waits,  *)
(* is delayed by the backoff, completed or failed), none of the videos its *)
(* attempts downloaded is left in the temp directory.                      *)
(***************************************************************************)
C38_SourceFileRemoved ==
    \A j \in JobIds :
        (qjobs[j].name = "process-video" /\ qjobs[j].state # "active")
            => qjobs[j].sourceFiles = 0

(***************************************************************************)
(* C39: the clip list that splitIntoClips returned to a process-video job  *)
(* is not empty and has at most maxClips clips when maxClips is given;     *)
(* clip i starts at startTime + i * clipDuration, lasts between 1 second   *)
(* and clipDuration, and ends within the video.  So a completed            *)
(* process-video job has at least one clip.                                *)
(***************************************************************************)
WellFormedClips(job, clips) ==
    /\ Len(clips) >= 1
    /\ job.maxClips # 0 => Len(clips) <= job.maxClips
    /\ \A k \in 1..Len(clips) :
          /\ clips[k].startTime = job.startTime + (k - 1) * DefaultClipDuration
          /\ clips[k].duration >= 1
          /\ clips[k].duration <= DefaultClipDuration
          /\ clips[k].startTime + clips[k].duration <= VideoDuration(job.url)

C39_SplitReturnsClips ==
    \A j \in JobIds :
        LET job == qjobs[j]
        IN  /\ (job.state = "active" /\ job.pc = "generating-ai")
                   => WellFormedClips(job, job.results.clips)
            /\ (job.name = "process-video" /\ job.state = "completed")
                   => WellFormedClips(job, job.returnvalue.results.clips)

=============================================================================
